---- MODULE Spec2Model ----
(***************************************************************************)
(* Model of the jinja-universal registry tooling:                          *)
(*   scripts/common.py             configuration store                      *)
(*   scripts/sync_zed_languages.py reconciliation with the upstream data    *)
(*   scripts/generate.py           artifact generation                      *)
(*                                                                         *)
(* Strings are sequences of code points, so that lower(), replace() and     *)
(* sorted() are computed the way Python computes them.  A dict is a record  *)
(* [keys, tab]: keys is the insertion order, tab the mapping.               *)
(***************************************************************************)
EXTENDS Integers, Sequences, FiniteSets, TLC

VARIABLES registry, folders, readme, manifest, present, run

vars == <<registry, folders, readme, manifest, present, run>>

(***************************************************************************)
(* Bounds of the model.                                                    *)
(***************************************************************************)
MaxExtLangs == 2

(***************************************************************************)
(* Strings.                                                                *)
(***************************************************************************)
Range(s) == {s[i] : i \in DOMAIN s}

\* str.lower() on a sequence of code points
Lower(s) == [i \in DOMAIN s |-> IF s[i] >= 65 /\ s[i] <= 90 THEN s[i] + 32 ELSE s[i]]

\* str.replace("-", "_")
DashToUnderscore(s) == [i \in DOMAIN s |-> IF s[i] = 45 THEN 95 ELSE s[i]]

\* Python's string order: lexicographic on code points
RECURSIVE StrLess(_, _)
StrLess(a, b) ==
    IF a = <<>> THEN b # <<>>
    ELSE IF b = <<>> THEN FALSE
    ELSE IF Head(a) # Head(b) THEN Head(a) < Head(b)
    ELSE StrLess(Tail(a), Tail(b))

\* sorted(S) for a set of strings
RECURSIVE SortedStrs(_)
SortedStrs(S) ==
    IF S = {} THEN <<>>
    ELSE LET m == CHOOSE x \in S : \A y \in S \ {x} : StrLess(x, y)
         IN <<m>> \o SortedStrs(S \ {m})

\* list(dict.fromkeys(s)): first occurrences, in order
RECURSIVE Dedupe(_)
Dedupe(s) ==
    IF s = <<>> THEN <<>>
    ELSE LET r == Dedupe(SubSeq(s, 1, Len(s) - 1))
         IN IF s[Len(s)] \in Range(r) THEN r ELSE Append(r, s[Len(s)])

S_y == <<121>>
S_Y == <<89>>
S_a_b == <<97, 95, 98>>
S_a_dash_b == <<97, 45, 98>>
S_p == <<112>>
S_q == <<113>>
S_f == <<102>>
\* a list item that is not a string (the TOML integer 1)
NonStrItem == <<-1>>
IsStr(item) == \A i \in DOMAIN item : item[i] >= 0
\* f'"{e}"' of a list item: the integer 1 is written as "1"
FormatItem(item) == IF IsStr(item) THEN item ELSE <<49>>

\* what a TOML parser reads back from a string that was written between double
\* quotes as it is: [ok |-> FALSE] when the line is not valid TOML
NotRead == [ok |-> FALSE, value |-> <<>>]

HexDigit(c) ==
    IF c \in 48..57 THEN c - 48
    ELSE IF c \in 65..70 THEN c - 55
    ELSE IF c \in 97..102 THEN c - 87
    ELSE -1

RECURSIVE HexValue(_)
HexValue(digits) ==
    IF digits = <<>> THEN 0
    ELSE 16 * HexValue(SubSeq(digits, 1, Len(digits) - 1)) + HexDigit(digits[Len(digits)])

\* the character a one-letter escape stands for, -1 when there is no such escape
EscapeValue(c) ==
    IF c = 98 THEN 8 ELSE IF c = 116 THEN 9 ELSE IF c = 110 THEN 10
    ELSE IF c = 102 THEN 12 ELSE IF c = 114 THEN 13
    ELSE IF c = 34 THEN 34 ELSE IF c = 92 THEN 92 ELSE -1

RECURSIVE ReadBack(_)
ReadBack(str) ==
    LET then(c, rest) == LET r == ReadBack(rest)
                         IN IF r.ok THEN [ok |-> TRUE, value |-> <<c>> \o r.value] ELSE NotRead
        unicode(n) == LET digits == SubSeq(str, 3, 2 + n)
                      IN IF Len(str) >= 2 + n /\ \A i \in DOMAIN digits : HexDigit(digits[i]) >= 0
                         THEN then(HexValue(digits), SubSeq(str, 3 + n, Len(str)))
                         ELSE NotRead
    IN IF str = <<>> THEN [ok |-> TRUE, value |-> <<>>]
       ELSE IF str[1] = 34 \/ str[1] = 127 \/ (str[1] < 32 /\ str[1] # 9) THEN NotRead
       ELSE IF str[1] # 92 THEN then(str[1], Tail(str))
       ELSE IF Len(str) = 1 THEN NotRead
       ELSE IF str[2] = 117 THEN unicode(4)
       ELSE IF str[2] = 85 THEN unicode(8)
       ELSE IF EscapeValue(str[2]) >= 0
            THEN then(EscapeValue(str[2]), SubSeq(str, 3, Len(str)))
       ELSE NotRead

(***************************************************************************)
(* common.py: the data model.                                              *)
(***************************************************************************)
REQUIRED_LANG_FIELDS == <<"name", "zed_language">>
DETECTION_FIELDS == <<"extensions", "suffixes", "filenames">>

NATIVE == "native"
EXTENSION == "extension"
EXTRA == "extra"
Source == {NATIVE, EXTENSION, EXTRA}

\* A LanguageConfig table.  has: the keys present; nonlist: the detection keys
\* whose value is not a list; a key that is absent holds its blank value.
BlankEntry ==
    [has |-> {}, nonlist |-> {}, name |-> <<>>, zed_language |-> <<>>,
     extensions |-> <<>>, suffixes |-> <<>>, filenames |-> <<>>,
     source |-> "", enabled |-> FALSE]

EmptyDict == [keys |-> <<>>, tab |-> <<>>]

\* d[k] = v on a dict: a new key goes last, an old key keeps its place
DictPut(d, k, v) ==
    IF k \in Range(d.keys)
    THEN [keys |-> d.keys, tab |-> [d.tab EXCEPT ![k] = v]]
    ELSE [keys |-> Append(d.keys, k),
          tab |-> [x \in Range(d.keys) \cup {k} |-> IF x = k THEN v ELSE d.tab[x]]]

\* the value of a detection key as a list (meaningful when it is a list)
FieldList(info, field) ==
    CASE field = "extensions" -> info.extensions
      [] field = "suffixes" -> info.suffixes
      [] field = "filenames" -> info.filenames

IsListField(info, field) == field \in info.has /\ field \notin info.nonlist


(***************************************************************************)
(* common.py: the environment of generate.py.  present is the set of the   *)
(* required directories and files found on disk; whether CONFIG_PATH is    *)
(* there is the registry file's exists.                                    *)
(***************************************************************************)
REQUIRED_TEMPLATES == <<"config.toml.template", "injections.scm.template">>

\* required_paths of validate_generate_environment, in its order
required_paths ==
    <<"TEMPLATES_DIR", "LANGUAGES_DIR", "JINJA2_DIR", "README_PATH", "EXTENSION_TOML_PATH",
      "CONFIG_PATH">>

\* everything but CONFIG_PATH in place
FullEnvironment == (Range(required_paths) \ {"CONFIG_PATH"}) \cup Range(REQUIRED_TEMPLATES)

\* path.exists()
PathExists(on_disk, file, path) == IF path = "CONFIG_PATH" THEN file.exists ELSE path \in on_disk

\* a validate_generate_environment that fails on the first missing path
MutEnvironmentStopsAtFirst(on_disk, file) ==
    LET errors == SelectSeq(required_paths, LAMBDA path : ~PathExists(on_disk, file, path))
    IN IF errors = <<>> THEN <<>> ELSE <<errors[1]>>

\* validate_generate_environment: the missing items it hands to fail_many, none
\* when it returns; the template files are looked for inside TEMPLATES_DIR
validate_generate_environment(on_disk, file) ==
    SelectSeq(required_paths, LAMBDA path : ~PathExists(on_disk, file, path))
        \o (IF "TEMPLATES_DIR" \in on_disk
            THEN SelectSeq(REQUIRED_TEMPLATES, LAMBDA tmpl : tmpl \notin on_disk)
            ELSE <<>>)

(***************************************************************************)
(* common.py: validation, load and save.                                   *)
(***************************************************************************)
Err(lang_id, kind, field) == [lang_id |-> lang_id, kind |-> kind, field |-> field]

\* validate_config_entry: the list of errors of one entry, in the code's order
validate_config_entry(lang_id, info) ==
    LET missing(field) == field \notin info.has
        required == [i \in 1..Len(REQUIRED_LANG_FIELDS) |->
                        Err(lang_id, "missing required field", REQUIRED_LANG_FIELDS[i])]
        e1 == SelectSeq(required, LAMBDA e : missing(e.field))
        e2 == IF \A i \in 1..Len(DETECTION_FIELDS) : missing(DETECTION_FIELDS[i])
              THEN <<Err(lang_id, "missing detection fields", "")>>
              ELSE <<>>
        typeErr(field) ==
            IF missing(field) THEN <<>>
            ELSE IF field \in info.nonlist THEN <<Err(lang_id, "must be a list", field)>>
            ELSE IF \E i \in DOMAIN FieldList(info, field) : ~IsStr(FieldList(info, field)[i])
                 THEN <<Err(lang_id, "must contain only strings", field)>>
            ELSE <<>>
        e3 == typeErr(DETECTION_FIELDS[1]) \o typeErr(DETECTION_FIELDS[2])
                 \o typeErr(DETECTION_FIELDS[3])
        e4 == IF "source" \in info.has /\ info.source \notin Source
              THEN <<Err(lang_id, "invalid source", "source")>>
              ELSE <<>>
    IN e1 \o e2 \o e3 \o e4

\* a validate_config that reports the first failing entry only
MutCollectStopsAtFirstEntry(config, keys) ==
    LET failing == SelectSeq(keys, LAMBDA k : validate_config_entry(k, config.tab[k]) # <<>>)
    IN IF failing = <<>> THEN <<>>
       ELSE validate_config_entry(failing[1], config.tab[failing[1]])

\* the errors validate_config collects over config.items()
RECURSIVE CollectErrors(_, _)
CollectErrors(config, keys) ==
    IF keys = <<>> THEN <<>>
    ELSE validate_config_entry(Head(keys), config.tab[Head(keys)])
            \o CollectErrors(config, Tail(keys))

\* validate_config returns normally (TRUE) or exits through fail / fail_many (FALSE)
validate_config(config) ==
    /\ config.keys # <<>>
    /\ CollectErrors(config, config.keys) = <<>>

\* the errors validate_config hands to fail / fail_many
validate_config_errors(config) ==
    IF config.keys = <<>> THEN <<Err(<<>>, "Config is empty", "")>>
    ELSE CollectErrors(config, config.keys)

\* load_config raises tomllib.TOMLDecodeError
load_config_raises(file) == file.exists /\ ~file.readable

\* load_config: the file's table, or {} when the file does not exist
load_config(file) == IF file.exists THEN [keys |-> file.keys, tab |-> file.tab] ELSE EmptyDict

\* load_and_validate_config returns normally
load_and_validate_config_ok(file) == file.exists /\ validate_config(load_config(file))

\* the errors load_and_validate_config reports before it exits
load_and_validate_config_errors(file) ==
    IF ~file.exists THEN <<Err(<<>>, "Config file not found", "")>>
    ELSE validate_config_errors(load_config(file))

\* save_config raises KeyError on info["name"] / info["zed_language"] before it writes
save_config_raises(config) ==
    \E k \in Range(config.keys) :
        "name" \notin config.tab[k].has \/ "zed_language" \notin config.tab[k].has

\* a save_config that writes "native" for an entry without a source
MutSavedEntryDefaultsNative(info) ==
    LET written == {f \in Range(DETECTION_FIELDS) : IsListField(info, f)}
        items(f) == IF f \in written
                    THEN [i \in DOMAIN FieldList(info, f) |->
                            ReadBack(FormatItem(FieldList(info, f)[i])).value]
                    ELSE <<>>
    IN [has |-> {"name", "zed_language", "source"}
                  \cup (IF written = {} THEN {"extensions"} ELSE written),
        nonlist |-> {},
        name |-> ReadBack(info.name).value,
        zed_language |-> ReadBack(info.zed_language).value,
        extensions |-> items("extensions"),
        suffixes |-> items("suffixes"),
        filenames |-> items("filenames"),
        source |-> IF "source" \in info.has THEN info.source ELSE NATIVE,
        enabled |-> FALSE]

\* one section of the file save_config writes, as the table it parses back to
SavedEntry(info) ==
    LET written == {f \in Range(DETECTION_FIELDS) : IsListField(info, f)}
        items(f) == IF f \in written
                    THEN [i \in DOMAIN FieldList(info, f) |->
                            ReadBack(FormatItem(FieldList(info, f)[i])).value]
                    ELSE <<>>
    IN [has |-> {"name", "zed_language", "source"}
                  \cup (IF written = {} THEN {"extensions"} ELSE written),
        nonlist |-> {},
        name |-> ReadBack(info.name).value,
        zed_language |-> ReadBack(info.zed_language).value,
        extensions |-> items("extensions"),
        suffixes |-> items("suffixes"),
        filenames |-> items("filenames"),
        source |-> IF "source" \in info.has THEN info.source ELSE EXTRA,
        enabled |-> FALSE]

\* the strings save_config writes between double quotes for one entry
WrittenStrings(info) ==
    {info.name, info.zed_language}
    \cup UNION {{FormatItem(FieldList(info, f)[i]) : i \in DOMAIN FieldList(info, f)} :
                  f \in {g \in Range(DETECTION_FIELDS) : IsListField(info, g)}}

\* a registry file that is not valid TOML
UnreadableFile == [exists |-> TRUE, readable |-> FALSE, keys |-> <<>>, tab |-> <<>>]

\* a save_config that writes the sections in the order of the mapping
MutSaveKeepsOrder(config) ==
    IF \E k \in Range(config.keys) : \E str \in WrittenStrings(config.tab[k]) : ~ReadBack(str).ok
    THEN UnreadableFile
    ELSE [exists |-> TRUE, readable |-> TRUE, keys |-> config.keys,
          tab |-> [k \in Range(config.keys) |-> SavedEntry(config.tab[k])]]

\* save_config: the file after the write (sections sorted by lang_id), as the
\* table it parses back to
save_config(config) ==
    LET keys == SortedStrs(Range(config.keys))
    IN IF \E k \in Range(keys) : \E str \in WrittenStrings(config.tab[k]) : ~ReadBack(str).ok
       THEN UnreadableFile
       ELSE [exists |-> TRUE, readable |-> TRUE, keys |-> keys,
             tab |-> [k \in Range(keys) |-> SavedEntry(config.tab[k])]]


(***************************************************************************)
(* sync_zed_languages.py: the upstream records.                            *)
(***************************************************************************)
LanguageInfo(id, name, zed_language, extensions, source, syntax_signature) ==
    [id |-> id, name |-> name, zed_language |-> zed_language, extensions |-> extensions,
     source |-> source, syntax_signature |-> syntax_signature]

\* get_native_languages: the record of one language directory
native_language_info(dirname, name, extensions) ==
    LanguageInfo(DashToUnderscore(Lower(dirname)), name, Lower(dirname), extensions, NATIVE, "")

\* build_extension_language_info: the record of one grammar of an extension
build_extension_language_info(grammar, name, extensions, syntax_signature) ==
    LanguageInfo(DashToUnderscore(Lower(grammar)), name, Lower(grammar), extensions,
                 EXTENSION, syntax_signature)

\* a filter whose loop lacks the continue: every record is kept
MutFilterKeepsAll(native_signatures, ext_langs) ==
    [kept |-> ext_langs,
     skipped |-> SelectSeq(ext_langs, LAMBDA lang : lang.syntax_signature \in native_signatures)]

\* filter_extensions_reusing_native_syntax
filter_extensions_reusing_native_syntax(native_signatures, ext_langs) ==
    LET reuses(lang) == lang.syntax_signature # "" /\ lang.syntax_signature \in native_signatures
    IN [kept |-> SelectSeq(ext_langs, LAMBDA lang : ~reuses(lang)),
        skipped |-> SelectSeq(ext_langs, LAMBDA lang : reuses(lang))]

ZedLangs(langs) == {langs[i].zed_language : i \in DOMAIN langs}

\* map_zed_languages: zed_language -> LanguageInfo, as a [keys, tab] dict
RECURSIVE MapZedFold(_, _)
MapZedFold(acc, langs) ==
    IF langs = <<>> THEN acc
    ELSE LET lang == Head(langs)
         IN MapZedFold(IF lang.zed_language \notin Range(acc.keys) \/ lang.source = NATIVE
                       THEN DictPut(acc, lang.zed_language, lang)
                       ELSE acc,
                       Tail(langs))

map_zed_languages(native_langs, ext_langs) == MapZedFold(EmptyDict, native_langs \o ext_langs)

\* fetch flags that ignore the source filter
MutFetchFlagsAlwaysBoth(args) == [fetch_native |-> TRUE, fetch_ext |-> TRUE]

\* get_fetch_flags
get_fetch_flags(args) ==
    IF ~args.native /\ ~args.ext
    THEN [fetch_native |-> TRUE, fetch_ext |-> TRUE]
    ELSE [fetch_native |-> ~args.ext \/ args.native, fetch_ext |-> ~args.native \/ args.ext]

\* info.get("zed_language", lang_id)
ZedLangOf(lang_id, info) == IF "zed_language" \in info.has THEN info.zed_language ELSE lang_id

\* a transition rule that tests the extension ids first
MutNewSourceExtFirst(zed_lang, native_ids, ext_ids) ==
    IF zed_lang \in ext_ids THEN EXTENSION
    ELSE IF zed_lang \in native_ids THEN NATIVE
    ELSE EXTRA

\* the transition rule of update_sources
NewSource(zed_lang, native_ids, ext_ids) ==
    IF zed_lang \in native_ids THEN NATIVE
    ELSE IF zed_lang \in ext_ids THEN EXTENSION
    ELSE EXTRA

\* update_sources: the config after the loop
update_sources(config, native_ids, ext_ids) ==
    [keys |-> config.keys,
     tab |-> [lang_id \in Range(config.keys) |->
                LET info == config.tab[lang_id]
                    new_source == NewSource(ZedLangOf(lang_id, info), native_ids, ext_ids)
                IN IF "source" \notin info.has \/ info.source # new_source
                   THEN [info EXCEPT !.has = @ \cup {"source"}, !.source = new_source]
                   ELSE info]]

\* a token scan that reads the extensions key alone
MutTokensOfExtensionsOnly(info) ==
    IF IsListField(info, "extensions")
    THEN SelectSeq(info.extensions, LAMBDA v : IsStr(v) /\ v # <<>>)
    ELSE <<>>

\* get_config_detection_tokens: the non-empty strings of the list-valued detection keys
get_config_detection_tokens(info) ==
    LET of(key) == IF IsListField(info, key)
                   THEN SelectSeq(FieldList(info, key), LAMBDA v : IsStr(v) /\ v # <<>>)
                   ELSE <<>>
    IN of("suffixes") \o of("filenames") \o of("extensions")

\* the entries backfill_missing_detection_tokens assigns to
Backfills(lang_id, info, zed_by_lang) ==
    /\ get_config_detection_tokens(info) = <<>>
    /\ ZedLangOf(lang_id, info) \in Range(zed_by_lang.keys)
    /\ zed_by_lang.tab[ZedLangOf(lang_id, info)].extensions # <<>>

\* backfill_missing_detection_tokens: the config after the loop
backfill_missing_detection_tokens(config, zed_by_lang) ==
    [keys |-> config.keys,
     tab |-> [lang_id \in Range(config.keys) |->
                LET info == config.tab[lang_id]
                IN IF Backfills(lang_id, info, zed_by_lang)
                   THEN [info EXCEPT !.has = @ \cup {"extensions"},
                                     !.nonlist = @ \ {"extensions"},
                                     !.extensions =
                                        zed_by_lang.tab[ZedLangOf(lang_id, info)].extensions]
                   ELSE info]]

\* the entry add_missing_languages stores for a LanguageInfo
NewEntry(lang) ==
    [BlankEntry EXCEPT !.has = {"name", "zed_language", "extensions", "source"},
                       !.name = lang.name, !.zed_language = lang.zed_language,
                       !.extensions = lang.extensions, !.source = lang.source]

\* whether add_missing_languages passes a LanguageInfo through the filter flags
PassesAddFilter(lang, args) ==
    /\ ~(args.native /\ ~args.ext /\ lang.source # NATIVE)
    /\ ~(args.ext /\ ~args.native /\ lang.source # EXTENSION)

RECURSIVE AddFold(_, _, _, _)
AddFold(config, existing_zed_langs, langs, args) ==
    IF langs = <<>> THEN config
    ELSE LET lang == Head(langs)
         IN AddFold(IF PassesAddFilter(lang, args) /\ lang.zed_language \notin existing_zed_langs
                    THEN DictPut(config, lang.id, NewEntry(lang))
                    ELSE config,
                    existing_zed_langs, Tail(langs), args)

\* add_missing_languages: the config after the call
add_missing_languages(config, all_zed_langs, args) ==
    IF ~args.add THEN config
    ELSE AddFold(config,
                 {ZedLangOf(lid, config.tab[lid]) : lid \in Range(config.keys)},
                 all_zed_langs, args)

\* add_missing_languages: the count it returns
RECURSIVE AddCount(_, _, _)
AddCount(existing_zed_langs, langs, args) ==
    IF langs = <<>> THEN 0
    ELSE (IF PassesAddFilter(Head(langs), args)
             /\ Head(langs).zed_language \notin existing_zed_langs THEN 1 ELSE 0)
         + AddCount(existing_zed_langs, Tail(langs), args)

add_missing_languages_count(config, all_zed_langs, args) ==
    IF ~args.add THEN 0
    ELSE AddCount({ZedLangOf(lid, config.tab[lid]) : lid \in Range(config.keys)},
                  all_zed_langs, args)


(***************************************************************************)
(* The upstream data a sync run can fetch, and the registries it can find. *)
(***************************************************************************)
N_Y == <<89>>
\* the name Y followed by two backslashes
N_Y_backslashes == <<89, 92, 92>>
N_AB == <<65, 66>>
N_ab == <<97, 98>>

\* language directories of the native repository
NativePool ==
    {native_language_info(S_y, N_Y, <<S_p>>),
     native_language_info(S_a_b, N_AB, <<>>)}

\* grammars of the extensions repository: Y named "Y2", y named "Y3", a-b
ExtPool ==
    {build_extension_language_info(S_Y, <<89, 50>>, <<S_q>>, "sigA"),
     build_extension_language_info(S_y, <<89, 51>>, <<>>, ""),
     build_extension_language_info(S_a_dash_b, N_ab, <<S_q>>, "sigB")}

\* the lists of at most n distinct elements of a pool, in every order
RECURSIVE ListsOver(_, _)
ListsOver(pool, n) ==
    IF n = 0 THEN {<<>>}
    ELSE LET shorter == ListsOver(pool, n - 1)
         IN shorter \cup {Append(l, x) : l \in shorter, x \in pool}

DistinctLists(pool, n) ==
    {l \in ListsOver(pool, n) : \A i, j \in DOMAIN l : i # j => l[i] # l[j]}

NativeLists == DistinctLists(NativePool, Cardinality(NativePool)) \ {<<>>}
ExtLists == DistinctLists(ExtPool, MaxExtLangs) \ {<<>>}
NativeSignatureSets == {{"sigA"}, {"sigB"}}

\* the flag combinations of a run; a read-only mode is run without source filter
SyncArgs ==
    {args \in [list : BOOLEAN, diff : BOOLEAN, classify : BOOLEAN,
               add : BOOLEAN, native : BOOLEAN, ext : BOOLEAN] :
        args.list \/ args.diff \/ args.classify => ~args.native /\ ~args.ext}

\* detection shapes of a stored entry: <<keys present, keys not a list, ext, suf, fil>>
Shape(has, nonlist, e, s, f) ==
    [has |-> has, nonlist |-> nonlist, extensions |-> e, suffixes |-> s, filenames |-> f]

DetectionShapes ==
    {Shape({}, {}, <<>>, <<>>, <<>>),
     Shape({"extensions"}, {}, <<>>, <<>>, <<>>),
     Shape({"extensions"}, {}, <<S_p>>, <<>>, <<>>),
     Shape({"filenames"}, {}, <<>>, <<>>, <<>>),
     Shape({"filenames"}, {}, <<>>, <<>>, <<S_f>>),
     Shape({"suffixes"}, {}, <<>>, <<>>, <<>>),
     Shape({"extensions"}, {"extensions"}, <<>>, <<>>, <<>>),
     Shape({"extensions"}, {}, <<NonStrItem>>, <<>>, <<>>)}

MkEntry(name, zed_language, shape, source) ==
    [BlankEntry EXCEPT
        !.has = {"name", "zed_language"} \cup shape.has
                   \cup (IF source = "" THEN {} ELSE {"source"}),
        !.nonlist = shape.nonlist, !.name = name, !.zed_language = zed_language,
        !.extensions = shape.extensions, !.suffixes = shape.suffixes,
        !.filenames = shape.filenames, !.source = source]

Without(entry, field) == [entry EXCEPT !.has = @ \ {field}]

\* the entries a registry can hold under [y]
FirstEntries ==
    {MkEntry(N_Y, S_y, shape, source) :
        shape \in DetectionShapes, source \in {"", NATIVE, EXTENSION, EXTRA, "bogus"}}
    \cup {[Without(MkEntry(N_Y, S_y, Shape({"extensions"}, {}, <<>>, <<>>, <<>>), EXTENSION),
                   "zed_language") EXCEPT !.zed_language = <<>>],
          [Without(MkEntry(N_Y, S_y, Shape({"extensions"}, {}, <<S_p>>, <<>>, <<>>), NATIVE),
                   "name") EXCEPT !.name = <<>>],
          [MkEntry(N_Y, S_y, Shape({"extensions"}, {}, <<S_p>>, <<>>, <<>>), "")
               EXCEPT !.has = @ \cup {"enabled"}, !.enabled = TRUE],
          MkEntry(N_Y_backslashes, S_y, Shape({"extensions"}, {}, <<S_p>>, <<>>, <<>>), NATIVE)}

\* the entry a registry can hold under [a_b]
SecondEntry == MkEntry(N_ab, S_a_dash_b, Shape({"extensions"}, {}, <<>>, <<>>, <<>>), EXTENSION)

NoFile == [exists |-> FALSE, readable |-> FALSE, keys |-> <<>>, tab |-> <<>>]

FileOf(config) == [exists |-> TRUE, readable |-> TRUE, keys |-> config.keys, tab |-> config.tab]

\* the registry files a run can find: none, or [y] alone, or [a_b] before [y]
InitRegistries ==
    {NoFile}
    \cup {FileOf(DictPut(EmptyDict, S_y, e)) : e \in FirstEntries}
    \cup {FileOf(DictPut(DictPut(EmptyDict, S_a_b, SecondEntry), S_y, e)) : e \in FirstEntries}

NoRun == [cmd |-> "none"]

(***************************************************************************)
(* sync_zed_languages.py main(): one run of the sync command.              *)
(***************************************************************************)
\* a main() that goes on to reconcile and save after --diff
MutDiffFallsThrough(args) == ~args.classify /\ ~args.list

\* main() gets past its three early returns (--classify, --list, --diff)
reaches_reconcile(args) == ~args.classify /\ ~args.list /\ ~args.diff

\* the run of a tool that died on an unreadable registry file
Crash(tool, args, file) == [cmd |-> "crash", tool |-> tool, args |-> args, before |-> file]

Sync(args, native_langs, ext_langs, native_signatures) ==
    LET filtered == IF native_langs # <<>> /\ ext_langs # <<>>
                    THEN filter_extensions_reusing_native_syntax(native_signatures, ext_langs)
                    ELSE [kept |-> ext_langs, skipped |-> <<>>]
        effective_ext_langs == filtered.kept
        native_ids == ZedLangs(native_langs)
        ext_ids == ZedLangs(effective_ext_langs)
        config == load_config(registry)
        zed_by_lang == map_zed_languages(native_langs, effective_ext_langs)
        updated == update_sources(config, native_ids, ext_ids)
        backfilled == backfill_missing_detection_tokens(updated, zed_by_lang)
        added == add_missing_languages(backfilled, native_langs \o effective_ext_langs, args)
        reconciles == reaches_reconcile(args)
        compares == ~args.classify /\ ~args.list /\ args.diff
        crashed == (reconciles \/ compares) /\ load_config_raises(registry)
        saved == reconciles /\ ~crashed /\ ~save_config_raises(added)
    IN /\ run = NoRun
       /\ registry' = IF saved THEN save_config(added) ELSE registry
       /\ run' = IF crashed THEN Crash("sync", args, registry)
                 ELSE IF reconciles
                 THEN [cmd |-> "sync", args |-> args, native_langs |-> native_langs,
                       ext_langs |-> ext_langs, native_signatures |-> native_signatures,
                       effective_ext_langs |-> effective_ext_langs,
                       native_ids |-> native_ids, ext_ids |-> ext_ids,
                       zed_by_lang |-> zed_by_lang, loaded |-> config, updated |-> updated,
                       backfilled |-> backfilled, added |-> added,
                       validated |-> FALSE, saved |-> saved, before |-> registry]
                 ELSE [cmd |-> "sync_readonly", args |-> args,
                       mode |-> IF args.classify THEN "classify"
                                ELSE IF args.list THEN "list" ELSE "diff",
                       loaded |-> IF compares THEN config ELSE EmptyDict,
                       config |-> IF compares THEN config ELSE EmptyDict,
                       common |-> IF compares
                                  THEN {ZedLangOf(k, config.tab[k]) : k \in Range(config.keys)}
                                          \cap Range(map_zed_languages(native_langs, ext_langs).keys)
                                  ELSE {},
                       saved |-> FALSE, before |-> registry]
       /\ UNCHANGED <<folders, readme, manifest, present>>

\* --classify returns before anything is fetched; the native signatures are
\* parsed only by a reconciling run that fetched both kinds
SyncRun ==
    \E args \in SyncArgs :
        \E native_langs \in (IF ~args.classify /\ get_fetch_flags(args).fetch_native
                             THEN NativeLists ELSE {<<>>}) :
            \E ext_langs \in (IF ~args.classify /\ get_fetch_flags(args).fetch_ext
                              THEN ExtLists ELSE {<<>>}) :
                \E native_signatures \in
                        (IF reaches_reconcile(args) /\ native_langs # <<>> /\ ext_langs # <<>>
                         THEN NativeSignatureSets ELSE {{}}) :
                    Sync(args, native_langs, ext_langs, native_signatures)

InitSync ==
    /\ registry \in InitRegistries
    /\ folders = <<>>
    /\ readme = <<>>
    /\ manifest = <<>>
    /\ present = FullEnvironment
    /\ run = NoRun

\* the process ends: what it held in memory is gone, the files stay
Exit ==
    /\ run # NoRun
    /\ run' = NoRun
    /\ UNCHANGED <<registry, folders, readme, manifest, present>>

(***************************************************************************)
(* generate.py main() with --sort: sort_config.                            *)
(***************************************************************************)
\* a sort_config that loads without validating
MutSortLoadsUnvalidated(file) == file.exists /\ ~save_config_raises(load_config(file))

\* sort_config reaches save_config: load_and_validate_config returned
sort_config_saves(file) == load_and_validate_config_ok(file)

Sort ==
    LET config == load_config(registry)
        environment_errors == validate_generate_environment(present, registry)
        crashed == environment_errors = <<>> /\ load_config_raises(registry)
        saved == environment_errors = <<>> /\ ~crashed /\ sort_config_saves(registry)
    IN /\ run = NoRun
       /\ registry' = IF saved THEN save_config(config) ELSE registry
       /\ run' = IF crashed THEN Crash("sort", [sort |-> TRUE], registry)
                 ELSE [cmd |-> "sort", loaded |-> config, validated |-> TRUE,
                       environment_errors |-> environment_errors,
                       errors |-> load_and_validate_config_errors(registry),
                       saved |-> saved, before |-> registry]
       /\ UNCHANGED <<folders, readme, manifest, present>>

NextRegistry == SyncRun \/ Sort \/ Exit

SpecRegistry == InitSync /\ [][NextRegistry]_vars

(***************************************************************************)
(* generate.py: selection.                                                 *)
(***************************************************************************)
JINJA_VARIANTS == <<<<106, 105, 110, 106, 97>>, <<106, 105, 110, 106, 97, 50>>, <<106, 50>>>>

EXCLUDE_LANGUAGES_WITHOUT_DETECTION == TRUE

GenerateArgs == [all : BOOLEAN, native : BOOLEAN, ext : BOOLEAN]

\* sorted(list) of strings, duplicates kept
RECURSIVE SortList(_)
SortList(s) ==
    IF s = <<>> THEN <<>>
    ELSE LET rest == SortList(Tail(s))
             before == SelectSeq(rest, LAMBDA x : StrLess(x, Head(s)))
             after == SelectSeq(rest, LAMBDA x : ~StrLess(x, Head(s)))
         IN before \o <<Head(s)>> \o after

RECURSIVE Flatten(_)
Flatten(ss) == IF ss = <<>> THEN <<>> ELSE Head(ss) \o Flatten(Tail(ss))

\* generate_path_suffixes: f"{ext}.{variant}" for each sorted extension and each variant
generate_path_suffixes(extensions) ==
    LET sorted == SortList(extensions)
    IN Flatten([i \in DOMAIN sorted |->
                   [j \in DOMAIN JINJA_VARIANTS |-> sorted[i] \o <<46>> \o JINJA_VARIANTS[j]]])

\* a get_detection_tokens that prefers extensions when the entry has them
MutTokensPreferExtensions(info) ==
    IF "extensions" \in info.has THEN info.extensions
    ELSE Dedupe((IF "suffixes" \in info.has THEN info.suffixes ELSE <<>>)
                   \o (IF "filenames" \in info.has THEN info.filenames ELSE <<>>))

\* get_detection_tokens
get_detection_tokens(info) ==
    IF "suffixes" \in info.has \/ "filenames" \in info.has
    THEN Dedupe((IF "suffixes" \in info.has THEN info.suffixes ELSE <<>>)
                   \o (IF "filenames" \in info.has THEN info.filenames ELSE <<>>))
    ELSE IF "extensions" \in info.has THEN info.extensions ELSE <<>>

\* normalize_source
normalize_source(info) == IF "source" \in info.has THEN info.source ELSE EXTRA

\* has_detection_tokens
has_detection_tokens(info) == get_detection_tokens(info) # <<>>

\* a selection without the detection-token test
MutShouldIncludeNoTokenTest(info, args) ==
    \/ args.all
    \/ args.native /\ normalize_source(info) = NATIVE
    \/ args.ext /\ normalize_source(info) = EXTENSION
    \/ ~args.native /\ ~args.ext /\ normalize_source(info) \in {NATIVE, EXTENSION}

\* a selection whose two filters exclude each other when both are set
MutShouldIncludeExclusiveFilters(info, args) ==
    IF EXCLUDE_LANGUAGES_WITHOUT_DETECTION /\ ~has_detection_tokens(info) THEN FALSE
    ELSE IF args.all THEN TRUE
    ELSE IF args.native /\ ~args.ext THEN normalize_source(info) = NATIVE
    ELSE IF args.ext /\ ~args.native THEN normalize_source(info) = EXTENSION
    ELSE IF ~args.native /\ ~args.ext THEN normalize_source(info) \in {NATIVE, EXTENSION}
    ELSE FALSE

\* a selection whose default mode takes every source
MutShouldIncludeDefaultTakesExtra(info, args) ==
    IF EXCLUDE_LANGUAGES_WITHOUT_DETECTION /\ ~has_detection_tokens(info) THEN FALSE
    ELSE IF args.all THEN TRUE
    ELSE IF args.native /\ normalize_source(info) = NATIVE THEN TRUE
    ELSE IF args.ext /\ normalize_source(info) = EXTENSION THEN TRUE
    ELSE ~args.native /\ ~args.ext

\* should_include
should_include(info, args) ==
    IF EXCLUDE_LANGUAGES_WITHOUT_DETECTION /\ ~has_detection_tokens(info) THEN FALSE
    ELSE IF args.all THEN TRUE
    ELSE IF args.native /\ normalize_source(info) = NATIVE THEN TRUE
    ELSE IF args.ext /\ normalize_source(info) = EXTENSION THEN TRUE
    ELSE IF ~args.native /\ ~args.ext THEN normalize_source(info) \in {NATIVE, EXTENSION}
    ELSE FALSE

\* selected_langs of generate_languages
SelectedLangs(config, args) ==
    {lang_id \in Range(config.keys) : should_include(config.tab[lang_id], args)}

(***************************************************************************)
(* generate.py: the output folders.  folders maps each lang_id that has a   *)
(* <lang_id>_jinja directory to what the directory holds.                  *)
(***************************************************************************)
\* the shared files present in the base jinja2 directory
ExistingBaseFiles == {"highlights.scm", "brackets.scm"}

NoConfigToml == [present |-> FALSE, name |-> <<>>, suffixes |-> <<>>]
NoInjections == [present |-> FALSE, zed_language |-> <<>>]

\* a directory: its two generated files, the copies of the base files it
\* holds, and the files of the same names it holds with other content
Folder(config_toml, injections_scm, copies, stale) ==
    [config_toml |-> config_toml, injections_scm |-> injections_scm,
     copies |-> copies, stale |-> stale]

EmptyFolder == Folder(NoConfigToml, NoInjections, {}, {})

\* generate_config_toml: the template with name and the suffix list substituted
generate_config_toml(name, extensions) ==
    [present |-> TRUE, name |-> name, suffixes |-> generate_path_suffixes(extensions)]

\* generate_injections_scm
generate_injections_scm(zed_language) == [present |-> TRUE, zed_language |-> zed_language]

\* generate_language_folder: the directory after mkdir(exist_ok), the two
\* writes and copy_template_files
generate_language_folder(old, info) ==
    Folder(generate_config_toml(info.name, get_detection_tokens(info)),
           generate_injections_scm(info.zed_language),
           old.copies \cup ExistingBaseFiles,
           old.stale \ ExistingBaseFiles)

\* get_existing_language_folders
get_existing_language_folders(dirs) == DOMAIN dirs

\* the directories after a delete loop removed `deleted` and the write loop ran
AfterLoops(dirs, config, selected_langs, deleted) ==
    LET remaining == get_existing_language_folders(dirs) \ deleted
        written == {lang_id \in Range(config.keys) : lang_id \in selected_langs}
    IN [lang_id \in remaining \cup written |->
          IF lang_id \in written
          THEN generate_language_folder(IF lang_id \in remaining THEN dirs[lang_id]
                                        ELSE EmptyFolder,
                                        config.tab[lang_id])
          ELSE dirs[lang_id]]

\* a generate_languages that deletes nothing
MutGenerateKeepsOldFolders(dirs, config, args) ==
    AfterLoops(dirs, config, SelectedLangs(config, args), {})

\* generate_languages: every existing folder outside the selection is deleted,
\* then every selected entry of the config is written
generate_languages(dirs, config, args) ==
    LET selected_langs == SelectedLangs(config, args)
    IN AfterLoops(dirs, config, selected_langs,
                  {lang_id \in get_existing_language_folders(dirs) :
                      lang_id \notin selected_langs})

\* a generated count that counts every entry of the config
MutCountsEveryEntry(dirs, config, args) ==
    LET selected_langs == SelectedLangs(config, args)
    IN [generated |-> Cardinality(Range(config.keys)),
        skipped |-> Cardinality(Range(config.keys) \ selected_langs),
        deleted |-> Cardinality(get_existing_language_folders(dirs) \ selected_langs)]

\* generate_languages: the (generated, skipped, deleted) it returns
generate_languages_counts(dirs, config, args) ==
    LET selected_langs == SelectedLangs(config, args)
    IN [generated |-> Cardinality(selected_langs),
        skipped |-> Cardinality(Range(config.keys) \ selected_langs),
        deleted |-> Cardinality(get_existing_language_folders(dirs) \ selected_langs)]

(***************************************************************************)
(* generate.py: README.md.  The document is the sequence of its pieces: a  *)
(* marker, a summary line carrying a count, the generated mode block, or   *)
(* other text.  A string written into the document is cut into pieces at   *)
(* every marker it contains, so that find() sees those markers too.        *)
(***************************************************************************)
\* "<!-- LANGUAGES_TABLE_START -->"
README_START_MARKER ==
    <<60, 33, 45, 45, 32, 76, 65, 78, 71, 85, 65, 71, 69, 83, 95, 84, 65, 66,
      76, 69, 95, 83, 84, 65, 82, 84, 32, 45, 45, 62>>

\* "<!-- LANGUAGES_TABLE_END -->"
README_END_MARKER ==
    <<60, 33, 45, 45, 32, 76, 65, 78, 71, 85, 65, 71, 69, 83, 95, 84, 65, 66,
      76, 69, 95, 69, 78, 68, 32, 45, 45, 62>>

\* "<!-- GENERATED_MODE_START -->"
README_MODE_START_MARKER ==
    <<60, 33, 45, 45, 32, 71, 69, 78, 69, 82, 65, 84, 69, 68, 95, 77, 79, 68,
      69, 95, 83, 84, 65, 82, 84, 32, 45, 45, 62>>

\* "<!-- GENERATED_MODE_END -->"
README_MODE_END_MARKER ==
    <<60, 33, 45, 45, 32, 71, 69, 78, 69, 82, 65, 84, 69, 68, 95, 77, 79, 68,
      69, 95, 69, 78, 68, 32, 45, 45, 62>>

Markers ==
    {README_START_MARKER, README_END_MARKER, README_MODE_START_MARKER, README_MODE_END_MARKER}

Piece(kind, count, text, label) ==
    [kind |-> kind, count |-> count, text |-> text, label |-> label]

Text(text) == Piece("text", 0, text, "")
Marker(m) == Piece("marker", 0, m, "")
SummaryLine(count) == Piece("summary", count, <<>>, "")

\* whether marker m starts at position i of string str
OccursAt(str, m, i) == i + Len(m) - 1 <= Len(str) /\ SubSeq(str, i, i + Len(m) - 1) = m

\* a string as pieces: text up to its first marker, the marker, and the rest
RECURSIVE Pieces(_)
Pieces(str) ==
    LET starts == {i \in DOMAIN str : \E m \in Markers : OccursAt(str, m, i)}
    IN IF str = <<>> THEN <<>>
       ELSE IF starts = {} THEN <<Text(str)>>
       ELSE LET i == CHOOSE k \in starts : \A j \in starts : k <= j
                m == CHOOSE x \in Markers : OccursAt(str, x, i)
            IN (IF i = 1 THEN <<>> ELSE <<Text(SubSeq(str, 1, i - 1))>>)
                  \o <<Marker(m)>>
                  \o Pieces(SubSeq(str, i + Len(m), Len(str)))

\* get_filter_label
get_filter_label(args) ==
    IF args.all THEN "all (native + extension + extra)"
    ELSE IF args.native /\ args.ext THEN "native + extension"
    ELSE IF args.native THEN "native only"
    ELSE IF args.ext THEN "extension only"
    ELSE "native + extension (default)"

\* format_detection_for_readme, each token formatted, before the join
format_detection_for_readme(info) ==
    LET dotted(list) == [i \in DOMAIN list |-> <<46>> \o list[i] \o <<46, 42>>]
        plain(list) == [i \in DOMAIN list |-> list[i] \o <<46, 42>>]
    IN IF "suffixes" \in info.has \/ "filenames" \in info.has
       THEN (IF "suffixes" \in info.has THEN dotted(SortList(info.suffixes)) ELSE <<>>)
               \o (IF "filenames" \in info.has THEN plain(SortList(info.filenames)) ELSE <<>>)
       ELSE dotted(SortList(get_detection_tokens(info)))

\* sorted(entries, key=lambda x: x[0].lower()), a stable sort
RECURSIVE SortRows(_)
SortRows(rows) ==
    IF rows = <<>> THEN <<>>
    ELSE LET rest == SortRows(Tail(rows))
             key(r) == Lower(r.name)
             before == SelectSeq(rest, LAMBDA r : StrLess(key(r), key(Head(rows))))
             after == SelectSeq(rest, LAMBDA r : ~StrLess(key(r), key(Head(rows))))
         IN before \o <<Head(rows)>> \o after

\* generate_readme_table: the (name, detection) rows below the three fixed lines
TableRows(config, args) ==
    LET included == SelectSeq(config.keys, LAMBDA k : should_include(config.tab[k], args))
        entries == [i \in DOMAIN included |->
                      [name |-> config.tab[included[i]].name \o <<45, 74, 105, 110, 106, 97>>,
                       detection |-> format_detection_for_readme(config.tab[included[i]])]]
    IN SortRows(entries)

\* one "| name | detection |" line of the table
RowPieces(row) ==
    <<Piece("row", 0, <<>>, "")>> \o Pieces(row.name) \o <<Piece("cell", 0, <<>>, "")>>
        \o Flatten([i \in DOMAIN row.detection |-> Pieces(row.detection[i])])

\* generate_readme_table
generate_readme_table(config, args) ==
    LET rows == TableRows(config, args)
    IN <<Piece("header", 0, <<>>, "")>> \o Flatten([i \in DOMAIN rows |-> RowPieces(rows[i])])

\* content.find(marker): the first position of the marker, 0 when absent
Find(content, marker) ==
    LET at == {i \in DOMAIN content : content[i] = Marker(marker)}
    IN IF at = {} THEN 0 ELSE CHOOSE i \in at : \A j \in at : i <= j

\* a replace_marked_block that only tests that both markers are present
MutReplaceIgnoresOrder(content, start_marker, end_marker) ==
    \/ Find(content, start_marker) = 0
    \/ Find(content, end_marker) = 0

\* replace_marked_block: whether it fails
replace_marked_block_fails(content, start_marker, end_marker) ==
    \/ Find(content, start_marker) = 0
    \/ Find(content, end_marker) = 0
    \/ Find(content, end_marker) < Find(content, start_marker)

\* replace_marked_block: the content it returns
replace_marked_block(content, start_marker, end_marker, replacement) ==
    SubSeq(content, 1, Find(content, start_marker))
        \o replacement
        \o SubSeq(content, Find(content, end_marker), Len(content))

\* the re.subn of update_readme: every summary line gets the count
SubSummary(content, count) ==
    [i \in DOMAIN content |->
        IF content[i].kind = "summary" THEN SummaryLine(count) ELSE content[i]]

\* the mode block of update_readme
ModeBlock(filter_label) == <<Piece("mode", 0, <<>>, filter_label)>>

\* update_readme: whether one of its three steps fails
update_readme_fails(content) ==
    \/ \A i \in DOMAIN content : content[i].kind # "summary"
    \/ replace_marked_block_fails(content, README_MODE_START_MARKER, README_MODE_END_MARKER)
    \/ replace_marked_block_fails(
          replace_marked_block(content, README_MODE_START_MARKER, README_MODE_END_MARKER,
                               ModeBlock("")),
          README_START_MARKER, README_END_MARKER)

\* update_readme: the README it writes
update_readme(content, table, count, filter_label) ==
    replace_marked_block(
        replace_marked_block(SubSummary(content, count),
                             README_MODE_START_MARKER, README_MODE_END_MARKER,
                             ModeBlock(filter_label)),
        README_START_MARKER, README_END_MARKER, table)

(***************************************************************************)
(* generate.py: extension.toml, the sequence of its lines.                 *)
(***************************************************************************)
\* infer_selected_source_categories
infer_selected_source_categories(config, args) ==
    LET selected_sources ==
            {normalize_source(config.tab[k]) : k \in SelectedLangs(config, args)}
        source_categories ==
            SelectSeq(<<NATIVE, EXTENSION, EXTRA>>, LAMBDA c : c \in selected_sources)
    IN IF source_categories # <<>> THEN source_categories ELSE <<"none">>

DescriptionLine(count, source_categories) ==
    [kind |-> "description", count |-> count, categories |-> source_categories]

OtherLine == [kind |-> "other", count |-> 0, categories |-> <<>>]

\* update_extension_manifest: whether the description line is missing
update_extension_manifest_fails(content) ==
    \A i \in DOMAIN content : content[i].kind # "description"

\* update_extension_manifest: re.subn with count=1 rewrites the first description line
update_extension_manifest(content, count, source_categories) ==
    LET first == CHOOSE i \in DOMAIN content :
                    /\ content[i].kind = "description"
                    /\ \A j \in 1..(i - 1) : content[j].kind # "description"
    IN [content EXCEPT ![first] = DescriptionLine(count, source_categories)]

(***************************************************************************)
(* The registries, output directories and documents a generate run can     *)
(* find.                                                                   *)
(***************************************************************************)
MaxEntries == 2
MaxReadmePieces == 24

GenIds == <<S_y, S_a_b, S_q>>

\* the entries a registry can hold under the i-th id
GenPool(i) ==
    IF i = 1
    THEN {MkEntry(N_Y, S_y, Shape({"extensions"}, {}, <<S_p>>, <<>>, <<>>), NATIVE),
          MkEntry(README_END_MARKER, S_y, Shape({"extensions"}, {}, <<S_p>>, <<>>, <<>>), EXTRA),
          MkEntry(N_Y, S_y, Shape({"extensions"}, {}, <<S_q, S_p, S_q>>, <<>>, <<>>), ""),
          MkEntry(N_Y, S_y, Shape({"extensions"}, {}, <<>>, <<>>, <<>>), NATIVE),
          Without(MkEntry(N_Y, S_y,
                          Shape({"extensions", "filenames"}, {"extensions"},
                                <<>>, <<>>, <<NonStrItem>>), "bogus"), "name")}
    ELSE IF i = 2
    THEN {MkEntry(N_ab, S_a_dash_b, Shape({"extensions"}, {}, <<S_p>>, <<>>, <<>>), EXTENSION),
          MkEntry(N_ab, S_a_dash_b,
                  Shape({"extensions", "suffixes", "filenames"}, {},
                        <<S_q>>, <<S_p>>, <<S_f, S_p>>), EXTENSION),
          MkEntry(N_ab, S_a_dash_b, Shape({"filenames"}, {}, <<>>, <<>>, <<>>), NATIVE),
          MkEntry(N_ab, S_a_dash_b, Shape({}, {}, <<>>, <<>>, <<>>), EXTENSION)}
    ELSE {MkEntry(N_AB, S_q, Shape({"extensions"}, {}, <<S_q>>, <<>>, <<>>), EXTRA),
          MkEntry(N_AB, S_q, Shape({"suffixes"}, {}, <<>>, <<S_q>>, <<>>), NATIVE)}

\* the registries holding the first n ids, in that order
RECURSIVE GenConfigs(_)
GenConfigs(n) ==
    IF n = 0 THEN {EmptyDict}
    ELSE {DictPut(c, GenIds[n], e) : c \in GenConfigs(n - 1), e \in GenPool(n)}

GenRegistries == {NoFile} \cup {FileOf(c) : c \in UNION {GenConfigs(n) : n \in 0..MaxEntries}}

NoFolders == [lang_id \in {} |-> EmptyFolder]

\* a directory left by an earlier version: other names, other file contents
StaleFolder ==
    Folder([present |-> TRUE, name |-> S_f, suffixes |-> <<S_f>>],
           [present |-> TRUE, zed_language |-> S_f],
           {}, {"highlights.scm", "indents.scm"})

InitFolders ==
    {NoFolders,
     [lang_id \in {S_y, S_f} |-> IF lang_id = S_y THEN StaleFolder ELSE EmptyFolder],
     [lang_id \in {S_a_b} |-> EmptyFolder]}

InitReadmes ==
    {<<Text(S_f), SummaryLine(0), Marker(README_MODE_START_MARKER), Text(S_p),
       Marker(README_MODE_END_MARKER), Marker(README_START_MARKER), Text(S_q),
       Marker(README_END_MARKER), Text(S_f)>>,
     <<SummaryLine(1), SummaryLine(2), Marker(README_START_MARKER), Marker(README_END_MARKER),
       Marker(README_END_MARKER), Marker(README_MODE_START_MARKER),
       Marker(README_MODE_END_MARKER), Marker(README_MODE_START_MARKER)>>,
     <<Marker(README_MODE_START_MARKER), Marker(README_MODE_END_MARKER),
       Marker(README_START_MARKER), Marker(README_END_MARKER)>>,
     <<SummaryLine(0), Marker(README_MODE_START_MARKER), Marker(README_MODE_END_MARKER),
       Marker(README_END_MARKER), Marker(README_START_MARKER)>>,
     <<SummaryLine(0), Marker(README_MODE_START_MARKER), Marker(README_START_MARKER),
       Marker(README_MODE_END_MARKER), Marker(README_END_MARKER)>>}

InitManifests ==
    {<<OtherLine, DescriptionLine(0, <<>>), OtherLine, DescriptionLine(9, <<>>)>>,
     <<OtherLine>>}

\* what is in place of the required directories and files: a directory that is
\* missing holds nothing
InitEnvironments ==
    {FullEnvironment,
     FullEnvironment \ {"injections.scm.template"},
     FullEnvironment \ {"README_PATH", "config.toml.template"},
     FullEnvironment \ {"TEMPLATES_DIR", "config.toml.template", "injections.scm.template",
                        "EXTENSION_TOML_PATH"},
     FullEnvironment \ {"JINJA2_DIR"},
     FullEnvironment \ {"LANGUAGES_DIR", "JINJA2_DIR"}}

(***************************************************************************)
(* generate.py main() without --sort: one run of the generate command.     *)
(***************************************************************************)
\* what main() leaves on disk, and how far it got
GenerateOutcome(file, dirs, readme_content, manifest_content, args) ==
    LET config == load_config(file)
        counts == generate_languages_counts(dirs, config, args)
        status == IF validate_generate_environment(present, file) # <<>> THEN "no_environment"
                  ELSE IF load_config_raises(file) THEN "crash"
                  ELSE IF ~load_and_validate_config_ok(file) THEN "invalid"
                  ELSE IF update_readme_fails(readme_content) THEN "readme_failed"
                  ELSE IF update_extension_manifest_fails(manifest_content)
                       THEN "manifest_failed"
                  ELSE "ok"
    IN [status |-> status,
        folders |-> IF status \in {"no_environment", "crash", "invalid"} THEN dirs
                    ELSE generate_languages(dirs, config, args),
        readme |-> IF status \in {"manifest_failed", "ok"}
                   THEN update_readme(readme_content, generate_readme_table(config, args),
                                      counts.generated, get_filter_label(args))
                   ELSE readme_content,
        manifest |-> IF status = "ok"
                     THEN update_extension_manifest(manifest_content, counts.generated,
                              infer_selected_source_categories(config, args))
                     ELSE manifest_content]

Generate(args) ==
    LET out == GenerateOutcome(registry, folders, readme, manifest, args)
        config == IF registry.exists THEN load_config(registry) ELSE EmptyDict
    IN /\ run = NoRun
       /\ Len(readme) <= MaxReadmePieces
       /\ folders' = out.folders
       /\ readme' = out.readme
       /\ manifest' = out.manifest
       /\ run' = IF out.status = "crash" THEN Crash("generate", args, registry)
                 ELSE [cmd |-> "generate", args |-> args, status |-> out.status,
                       loaded |-> config, config |-> config,
                       environment_errors |-> validate_generate_environment(present, registry),
                       errors |-> load_and_validate_config_errors(registry),
                       counts |-> generate_languages_counts(folders, config, args),
                       before |-> [registry |-> registry, folders |-> folders,
                                   readme |-> readme, manifest |-> manifest]]
       /\ UNCHANGED <<registry, present>>

GenerateRun == \E args \in GenerateArgs : Generate(args)

InitGen ==
    /\ registry \in GenRegistries
    /\ present \in InitEnvironments
    /\ folders \in (IF "LANGUAGES_DIR" \in present THEN InitFolders ELSE {NoFolders})
    /\ readme \in (IF "README_PATH" \in present THEN InitReadmes ELSE {<<>>})
    /\ manifest \in (IF "EXTENSION_TOML_PATH" \in present THEN InitManifests ELSE {<<>>})
    /\ run = NoRun

NextGen == GenerateRun \/ Sort \/ Exit

SpecGen == InitGen /\ [][NextGen]_vars

(***************************************************************************)
(* sync_zed_languages.py get_extension_languages(): the concurrent fetch.  *)
(* run holds the loop's variables; the futures complete in any order.      *)
(***************************************************************************)
MaxExtensions == 3

\* how check_ext ends for one extension: get_extension_language_info returns
\* languages, returns None because fetch_text failed, returns None because the
\* extension declares no grammar, or raises
TaskOutcomes == {"languages", "fetch_failed", "no_grammars", "raises"}

\* the extensions parse_gitmodules can list, each with the way its task ends
ExtensionLists == UNION {[1..n -> TaskOutcomes] : n \in 0..MaxExtensions}

\* the languages get_extension_language_info returns for the i-th extension
LanguagesOf(i) == <<build_extension_language_info(<<96 + i>>, <<64 + i>>, <<>>, "")>>

FetchStarted(extensions) ==
    [cmd |-> "fetch_ext", phase |-> "running", extensions |-> extensions,
     pending |-> DOMAIN extensions, all_languages |-> <<>>, checked |-> 0, fetch_errors |-> 0]

\* fetch_errors > len(extensions) * 0.5
TooManyErrors(fetch_errors, total) == 2 * fetch_errors > total

\* one turn of the as_completed loop: the future of extension i is done
FutureDone(i) ==
    /\ run.cmd = "fetch_ext" /\ run.phase = "running"
    /\ i \in run.pending
    /\ run' = [run EXCEPT
                  !.pending = @ \ {i},
                  !.checked = @ + 1,
                  !.all_languages = IF run.extensions[i] = "languages"
                                    THEN @ \o LanguagesOf(i) ELSE @,
                  !.fetch_errors = IF run.extensions[i] = "raises" THEN @ + 1 ELSE @]
    /\ UNCHANGED <<registry, folders, readme, manifest, present>>

FutureCompletes == \E i \in 1..MaxExtensions : FutureDone(i)

\* after the loop: the two fail() tests and the return
FetchEnds ==
    /\ run.cmd = "fetch_ext" /\ run.phase = "running"
    /\ run.pending = {}
    /\ run' = [run EXCEPT
                  !.phase = IF TooManyErrors(run.fetch_errors, Len(run.extensions))
                            THEN "too_many_errors"
                            ELSE IF run.all_languages = <<>> THEN "no_languages"
                            ELSE "returned"]
    /\ UNCHANGED <<registry, folders, readme, manifest, present>>

InitFetch ==
    /\ registry = NoFile
    /\ folders = NoFolders
    /\ readme = <<>>
    /\ manifest = <<>>
    /\ present = FullEnvironment
    /\ run \in {FetchStarted(extensions) : extensions \in ExtensionLists}

NextFetch == FutureCompletes \/ FetchEnds

SpecFetch == InitFetch /\ [][NextFetch]_vars

(***************************************************************************)
(* sync_zed_languages.py split_path_suffixes(): the classification of the   *)
(* detection tokens of the --classify report.  run holds the loop's         *)
(* variables.                                                              *)
(***************************************************************************)
MaxTokens == 3

\* ".p", "*.p", "f", "f.p", ".f.*", "x/y", "*.*", " .p ", " " and ""
T_dot_p == <<46, 112>>
T_f_dot_p == <<102, 46, 112>>
T_dot_f_dot_star == <<46, 102, 46, 42>>
T_padded_dot_p == <<32, 46, 112, 32>>

TokenPool ==
    {T_dot_p, <<42, 46, 112>>, S_f, T_f_dot_p, T_dot_f_dot_star, <<120, 47, 121>>,
     <<42, 46, 42>>, T_padded_dot_p, <<32>>, <<>>}

\* str.strip(): the ASCII whitespace is cut from both ends
RECURSIVE Strip(_)
Strip(str) ==
    LET whitespace == {9, 10, 11, 12, 13, 28, 29, 30, 31, 32}
    IN IF str = <<>> THEN <<>>
       ELSE IF str[1] \in whitespace THEN Strip(Tail(str))
       ELSE IF str[Len(str)] \in whitespace THEN Strip(SubSeq(str, 1, Len(str) - 1))
       ELSE str

\* str.startswith(prefix)
StartsWith(str, prefix) == Len(prefix) <= Len(str) /\ SubSeq(str, 1, Len(prefix)) = prefix

\* str.count(c) for one character
CountChar(str, c) == Cardinality({i \in DOMAIN str : str[i] = c})

\* a classification that sends every token holding a dot past the first
\* position to other_patterns
MutBucketDotIsOther(value) ==
    IF 47 \in Range(value) THEN "other_patterns"
    ELSE IF 42 \in Range(value)
         THEN (IF StartsWith(value, <<42, 46>>) /\ CountChar(value, 42) = 1
               THEN "suffixes" ELSE "other_patterns")
    ELSE IF StartsWith(value, <<46>>) THEN "suffixes"
    ELSE IF 46 \in Range(value) THEN "other_patterns"
    ELSE "full_filenames"

\* the list the loop body of split_path_suffixes appends a stripped value to
Bucket(value) ==
    IF 47 \in Range(value) THEN "other_patterns"
    ELSE IF 42 \in Range(value)
         THEN (IF StartsWith(value, <<42, 46>>) /\ CountChar(value, 42) = 1
               THEN "suffixes" ELSE "other_patterns")
    ELSE IF StartsWith(value, <<46>>) THEN "suffixes"
    ELSE "full_filenames"

\* dedupe_strings
dedupe_strings(items) == Dedupe(items)

SplitStarted(path_suffixes) ==
    [cmd |-> "split_path_suffixes", phase |-> "loop", path_suffixes |-> path_suffixes,
     at |-> 1, suffixes |-> <<>>, full_filenames |-> <<>>, other_patterns |-> <<>>]

\* one turn of the for loop
SplitStep ==
    /\ run.cmd = "split_path_suffixes" /\ run.phase = "loop"
    /\ run.at <= Len(run.path_suffixes)
    /\ LET value == Strip(run.path_suffixes[run.at])
           to == Bucket(value)
       IN run' = [run EXCEPT
                     !.at = @ + 1,
                     !.suffixes = IF value # <<>> /\ to = "suffixes"
                                  THEN Append(@, value) ELSE @,
                     !.full_filenames = IF value # <<>> /\ to = "full_filenames"
                                        THEN Append(@, value) ELSE @,
                     !.other_patterns = IF value # <<>> /\ to = "other_patterns"
                                        THEN Append(@, value) ELSE @]
    /\ UNCHANGED <<registry, folders, readme, manifest, present>>

\* the return statement
SplitReturns ==
    /\ run.cmd = "split_path_suffixes" /\ run.phase = "loop"
    /\ run.at > Len(run.path_suffixes)
    /\ run' = [run EXCEPT !.phase = "returned",
                          !.suffixes = dedupe_strings(@),
                          !.full_filenames = dedupe_strings(@),
                          !.other_patterns = dedupe_strings(@)]
    /\ UNCHANGED <<registry, folders, readme, manifest, present>>

InitSplit ==
    /\ registry = NoFile
    /\ folders = NoFolders
    /\ readme = <<>>
    /\ manifest = <<>>
    /\ present = FullEnvironment
    /\ run \in {SplitStarted(path_suffixes) :
                  path_suffixes \in UNION {[1..n -> TokenPool] : n \in 0..MaxTokens}}

NextSplit == SplitStep \/ SplitReturns

SpecSplit == InitSplit /\ [][NextSplit]_vars

(***************************************************************************)
(* Properties of a sync run.                                               *)
(***************************************************************************)
IsSync == run.cmd = "sync"

Entries(config) == Range(config.keys)

DeclaresDetection(info) == info.has \cap Range(DETECTION_FIELDS) # {}

\* C1: update_sources gives every existing entry the source of the transition
\* rule (native, else extension, else extra; native wins when the id is in both
\* sets), whatever source was stored, and changes nothing else of the entry.
C1_UpdateSourcesFollowsRule ==
    IsSync =>
        /\ run.updated.keys = run.loaded.keys
        /\ \A lang_id \in Entries(run.loaded) :
            LET old == run.loaded.tab[lang_id]
                new == run.updated.tab[lang_id]
                zed_lang == IF "zed_language" \in old.has THEN old.zed_language ELSE lang_id
                expected == CASE zed_lang \in run.native_ids -> NATIVE
                              [] zed_lang \notin run.native_ids /\ zed_lang \in run.ext_ids
                                    -> EXTENSION
                              [] OTHER -> EXTRA
            IN /\ "source" \in new.has
               /\ new.source = expected
               /\ new = [old EXCEPT !.has = @ \cup {"source"}, !.source = expected]

\* C1 witness: an entry stored as extension whose zed_language is both a native
\* id and an effective extension id has become native.
C1_Witness ==
    /\ IsSync
    /\ \E lang_id \in Entries(run.loaded) :
        /\ "source" \in run.loaded.tab[lang_id].has
        /\ run.loaded.tab[lang_id].source = EXTENSION
        /\ run.loaded.tab[lang_id].zed_language \in run.native_ids \cap run.ext_ids
        /\ run.updated.tab[lang_id].source = NATIVE

\* the zed_languages that only filtered extension records provide
ReusesNative(lang) ==
    lang.syntax_signature # "" /\ lang.syntax_signature \in run.native_signatures

OnlyFilteredProvide(zed_lang) ==
    /\ \E i \in DOMAIN run.ext_langs : run.ext_langs[i].zed_language = zed_lang
    /\ \A i \in DOMAIN run.ext_langs :
          run.ext_langs[i].zed_language = zed_lang => ReusesNative(run.ext_langs[i])
    /\ \A i \in DOMAIN run.native_langs : run.native_langs[i].zed_language # zed_lang

BothFetched == run.native_langs # <<>> /\ run.ext_langs # <<>>

\* C2: when native and extension data are both fetched, every extension record
\* whose non-empty syntax_signature is a native signature is left out of the
\* effective extension set, and an entry whose zed_language only such records
\* provide (and no native record) has source extra after update_sources, in the
\* config at the end of the run and in the registry written.
C2_FilteredExtensionEndsExtra ==
    (IsSync /\ BothFetched) =>
        /\ \A i \in DOMAIN run.ext_langs :
              ReusesNative(run.ext_langs[i])
                  => run.ext_langs[i] \notin Range(run.effective_ext_langs)
        /\ \A i \in DOMAIN run.ext_langs :
              ~ReusesNative(run.ext_langs[i])
                  => run.ext_langs[i] \in Range(run.effective_ext_langs)
        /\ \A lang_id \in Entries(run.loaded) :
              ("zed_language" \in run.loaded.tab[lang_id].has
                 /\ OnlyFilteredProvide(run.loaded.tab[lang_id].zed_language))
                  => run.updated.tab[lang_id].source = EXTRA
        /\ \A lang_id \in Entries(run.added) :
              ("zed_language" \in run.added.tab[lang_id].has
                 /\ OnlyFilteredProvide(run.added.tab[lang_id].zed_language))
                  => /\ run.added.tab[lang_id].source = EXTRA
                     /\ run.saved /\ registry.readable => registry.tab[lang_id].source = EXTRA

\* C2 witness: an entry stored as extension, whose language a filtered extension
\* record alone provides, was written with source extra.
C2_Witness ==
    /\ IsSync /\ BothFetched /\ run.saved /\ registry.readable
    /\ \E lang_id \in Entries(run.loaded) :
        /\ "source" \in run.loaded.tab[lang_id].has
        /\ run.loaded.tab[lang_id].source = EXTENSION
        /\ "zed_language" \in run.loaded.tab[lang_id].has
        /\ OnlyFilteredProvide(run.loaded.tab[lang_id].zed_language)
        /\ lang_id \in Entries(registry)
        /\ registry.tab[lang_id].zed_language = run.loaded.tab[lang_id].zed_language
        /\ registry.tab[lang_id].source = EXTRA



\* the upstream record map_zed_languages holds for an entry, if any
HasRemoteExtensions(lang_id, info) ==
    LET zed_lang == IF "zed_language" \in info.has THEN info.zed_language ELSE lang_id
    IN /\ zed_lang \in Range(run.zed_by_lang.keys)
       /\ run.zed_by_lang.tab[zed_lang].extensions # <<>>

\* a detection key of the entry is a list that holds a non-empty string
HoldsToken(info) ==
    \E field \in Range(DETECTION_FIELDS) :
        /\ field \in info.has /\ field \notin info.nonlist
        /\ \E i \in DOMAIN FieldList(info, field) :
              IsStr(FieldList(info, field)[i]) /\ FieldList(info, field)[i] # <<>>

\* C3 as stated: backfill_missing_detection_tokens never modifies an entry that
\* declares a detection field (extensions, suffixes or filenames), even when
\* that field is an empty list.
C3_Original_BackfillSkipsDeclared ==
    IsSync =>
        \A lang_id \in Entries(run.updated) :
            DeclaresDetection(run.updated.tab[lang_id])
                => run.backfilled.tab[lang_id] = run.updated.tab[lang_id]

\* C3 amended: backfill_missing_detection_tokens never modifies an entry one of
\* whose detection lists holds a non-empty string (so never an entry with
\* filenames ["f"] and no extensions, whatever the remote match holds); every
\* other entry, whether its detection keys are absent, empty lists or malformed,
\* receives the extensions of its remote match when those are non-empty, and
\* nothing but its extensions key is written.
C3_BackfillSkipsEntriesWithTokens ==
    IsSync =>
        /\ run.backfilled.keys = run.updated.keys
        /\ \A lang_id \in Entries(run.updated) :
            LET old == run.updated.tab[lang_id]
                new == run.backfilled.tab[lang_id]
                zed_lang == IF "zed_language" \in old.has THEN old.zed_language ELSE lang_id
            IN /\ HoldsToken(old) => new = old
               /\ (~HoldsToken(old) /\ ~HasRemoteExtensions(lang_id, old)) => new = old
               /\ (~HoldsToken(old) /\ HasRemoteExtensions(lang_id, old)) =>
                     new = [old EXCEPT !.has = @ \cup {"extensions"},
                                       !.nonlist = @ \ {"extensions"},
                                       !.extensions = run.zed_by_lang.tab[zed_lang].extensions]

\* C3 witness: an entry that declares filenames ["f"] and no extensions, with a
\* remote match that has extensions, went through backfill unchanged, while
\* another run backfilled an entry that declared an empty list.
C3_Witness ==
    /\ IsSync
    /\ \E lang_id \in Entries(run.updated) :
        LET old == run.updated.tab[lang_id]
        IN /\ "filenames" \in old.has /\ old.filenames # <<>> /\ "extensions" \notin old.has
           /\ HasRemoteExtensions(lang_id, old)
           /\ run.backfilled.tab[lang_id] = old

\* a run in which an entry that declared an empty detection list was backfilled
C3_BackfilledDeclaredEmpty ==
    /\ IsSync
    /\ \E lang_id \in Entries(run.updated) :
        /\ DeclaresDetection(run.updated.tab[lang_id])
        /\ run.backfilled.tab[lang_id] # run.updated.tab[lang_id]

\* the upstream records add_missing_languages is given
AllZedLangs == run.native_langs \o run.effective_ext_langs

ExistingZedLangs(config) ==
    {IF "zed_language" \in config.tab[lid].has THEN config.tab[lid].zed_language ELSE lid :
        lid \in Entries(config)}

PassesFlags(lang) ==
    /\ (run.args.native /\ ~run.args.ext) => lang.source = NATIVE
    /\ (run.args.ext /\ ~run.args.native) => lang.source = EXTENSION

Carries(config, lang) ==
    /\ lang.id \in Entries(config)
    /\ config.tab[lang.id].name = lang.name
    /\ config.tab[lang.id].zed_language = lang.zed_language
    /\ "extensions" \in config.tab[lang.id].has
    /\ config.tab[lang.id].extensions = lang.extensions
    /\ config.tab[lang.id].source = lang.source

\* C4: with --add, after add_missing_languages every upstream record that
\* passes the filter flags and whose zed_language was not in the config has an
\* entry under its id with its name, zed_language, extensions and source; a
\* second identical call adds 0; without --add nothing is added.
C4_AddStoresEveryMissingLanguage ==
    IsSync =>
        /\ ~run.args.add => run.added = run.backfilled
        /\ run.args.add =>
            /\ \A i \in DOMAIN AllZedLangs :
                  (PassesFlags(AllZedLangs[i])
                     /\ AllZedLangs[i].zed_language \notin ExistingZedLangs(run.backfilled))
                      => Carries(run.added, AllZedLangs[i])
            /\ add_missing_languages_count(run.added, AllZedLangs, run.args) = 0

\* C5 as stated: neither sync nor generate --sort executes save_config when an
\* entry of the loaded config fails validation.
C5_Original_NoSaveOfInvalidConfig ==
    (run.cmd \in {"sync", "sort"} /\ CollectErrors(run.loaded, run.loaded.keys) # <<>>)
        => ~run.saved

\* C5 amended: generate --sort never writes the registry from a config that
\* fails validation: when an entry of the loaded config violates the schema (or
\* the config is empty) the run aborts, save_config is not executed and the
\* file is left as it was; a valid config is saved.  A sync run does not
\* validate what it loads.
C5_SortNeverSavesInvalidConfig ==
    /\ run.cmd = "sort" =>
          /\ run.saved <=> (run.loaded.keys # <<>>
                              /\ CollectErrors(run.loaded, run.loaded.keys) = <<>>)
          /\ ~run.saved => registry = run.before
    /\ run.cmd = "sync" => ~run.validated

\* C5 witness: generate --sort ran on a registry with an invalid entry and
\* left the file alone.
C5_Witness ==
    /\ run.cmd = "sort"
    /\ run.before.exists
    /\ CollectErrors(run.loaded, run.loaded.keys) # <<>>
    /\ ~run.saved
    /\ registry = run.before

(***************************************************************************)
(* Properties of a generate run.                                           *)
(***************************************************************************)
IsGenerate == run.cmd = "generate"

\* a generate run that got past validation and ran generate_languages
Generated == IsGenerate /\ run.status \in {"readme_failed", "manifest_failed", "ok"}

\* the registry file as the current generate or sort run found it
FileBefore == IF IsGenerate THEN run.before.registry ELSE run.before

\* the source an entry of a file stores, "" when it stores none
StoredSource(file, lang_id) ==
    IF "source" \in file.tab[lang_id].has THEN file.tab[lang_id].source ELSE ""

C7_FoldersAreExactlySelected ==
    Generated => DOMAIN folders = SelectedLangs(run.loaded, run.args)

\* a run that deleted a folder outside the selection, created a folder that
\* was missing and rewrote one that existed
C7_Witness ==
    /\ Generated
    /\ DOMAIN run.before.folders \ SelectedLangs(run.loaded, run.args) # {}
    /\ SelectedLangs(run.loaded, run.args) \ DOMAIN run.before.folders # {}
    /\ SelectedLangs(run.loaded, run.args) \cap DOMAIN run.before.folders # {}

\* C8: generation is idempotent: a second run on the same registry with the
\* same flags leaves every language folder, README.md and extension.toml as the
\* first run left them.
C8_GenerateIsIdempotent ==
    IsGenerate =>
        LET again == GenerateOutcome(registry, folders, readme, manifest, run.args)
        IN /\ again.folders = folders
           /\ again.readme = readme
           /\ again.manifest = manifest

\* the entries of the registry file, each under every source it could store
EntriesUnderEverySource ==
    {[registry.tab[lang_id] EXCEPT
         !.has = (@ \ {"source"}) \cup (IF source = "" THEN {} ELSE {"source"}),
         !.source = source] :
       lang_id \in Range(registry.keys), source \in Source \cup {""}}

\* C9: should_include is false for every entry with no detection token,
\* whatever the flags and whatever the source.
C9_NoTokensNeverIncluded ==
    \A info \in EntriesUnderEverySource : \A args \in GenerateArgs :
        get_detection_tokens(info) = <<>> => ~should_include(info, args)

\* a run with --all on a registry holding a native entry without tokens, which
\* got no folder, next to an entry that got one
C9_Witness ==
    /\ Generated
    /\ run.args.all
    /\ DOMAIN folders # {}
    /\ \E lang_id \in Range(run.loaded.keys) :
          /\ get_detection_tokens(run.loaded.tab[lang_id]) = <<>>
          /\ normalize_source(run.loaded.tab[lang_id]) = NATIVE
          /\ lang_id \notin DOMAIN folders

BothFilters == {args \in GenerateArgs : args.native /\ args.ext /\ ~args.all}

\* C10 as stated: with --native and --ext both set and --all not set,
\* should_include excludes every entry.
C10_Original_BothFiltersExcludeAll ==
    \A info \in EntriesUnderEverySource : \A args \in BothFilters :
        ~should_include(info, args)

\* C10, amended: with --native and --ext both set and --all not set,
\* should_include selects exactly the entries that have a detection token and
\* whose source is native or extension; only extra entries are excluded.
C10_BothFiltersSelectNativeAndExtension ==
    \A info \in EntriesUnderEverySource : \A args \in BothFilters :
        should_include(info, args)
            <=> /\ has_detection_tokens(info)
                /\ normalize_source(info) \in {NATIVE, EXTENSION}

\* a run with --native --ext that wrote the folders of a native and of an
\* extension entry
C10_Witness ==
    /\ Generated
    /\ run.args \in BothFilters
    /\ \E a, b \in DOMAIN folders :
          /\ normalize_source(run.loaded.tab[a]) = NATIVE
          /\ normalize_source(run.loaded.tab[b]) = EXTENSION

\* C11: for an entry with a detection token, should_include selects it
\* with --all always; with no filter flag iff its source is native or extension
\* (extra and no source excluded); with --native alone iff its source is native;
\* with --ext alone iff its source is extension.
C11_ShouldIncludeFollowsTable ==
    \A info \in EntriesUnderEverySource : \A args \in GenerateArgs :
        get_detection_tokens(info) # <<>> =>
            /\ args.all => should_include(info, args)
            /\ ~args.all /\ ~args.native /\ ~args.ext =>
                  (should_include(info, args)
                      <=> "source" \in info.has /\ info.source \in {NATIVE, EXTENSION})
            /\ ~args.all /\ args.native /\ ~args.ext =>
                  (should_include(info, args)
                      <=> "source" \in info.has /\ info.source = NATIVE)
            /\ ~args.all /\ args.ext /\ ~args.native =>
                  (should_include(info, args)
                      <=> "source" \in info.has /\ info.source = EXTENSION)

\* a run with no filter flag on a registry holding an entry with tokens and no
\* source, which got no folder, next to an extension entry that got one
C11_Witness ==
    /\ Generated
    /\ ~run.args.all /\ ~run.args.native /\ ~run.args.ext
    /\ \E a, b \in Range(run.loaded.keys) :
          /\ get_detection_tokens(run.loaded.tab[a]) # <<>>
          /\ "source" \notin run.loaded.tab[a].has
          /\ a \notin DOMAIN folders
          /\ run.loaded.tab[b].source = EXTENSION
          /\ b \in DOMAIN folders

\* a generate run that reached update_readme
ReachedReadme == Generated

\* the start marker is absent, the end marker is absent, or an end marker
\* stands where no start marker precedes it
MarkersMissingOrReversed(content, start_marker, end_marker) ==
    \/ \A i \in DOMAIN content : content[i] # Marker(start_marker)
    \/ \A i \in DOMAIN content : content[i] # Marker(end_marker)
    \/ \E i \in DOMAIN content :
          /\ content[i] = Marker(end_marker)
          /\ \A j \in 1..i : content[j] # Marker(start_marker)

\* new keeps old's text up to and including the start marker and from the
\* end marker on
KeepsOutside(old, new, start_marker, end_marker) ==
    LET s == Find(old, start_marker)
        tail == Len(old) - Find(old, end_marker) + 1
    IN /\ Len(new) >= s + tail
       /\ SubSeq(new, 1, s) = SubSeq(old, 1, s)
       /\ SubSeq(new, Len(new) - tail + 1, Len(new))
             = SubSeq(old, Len(old) - tail + 1, Len(old))

\* the README content update_readme hands to its first replace_marked_block
ReadmeAfterSummary == SubSummary(run.before.readme, run.counts.generated)

\* the README content update_readme hands to its second replace_marked_block
ReadmeAfterMode ==
    replace_marked_block(ReadmeAfterSummary, README_MODE_START_MARKER,
                         README_MODE_END_MARKER, ModeBlock(get_filter_label(run.args)))

HasSummary == \E i \in DOMAIN run.before.readme : run.before.readme[i].kind = "summary"

\* C12: each marker-delimited rewrite of update_readme fails when its start
\* marker is absent, its end marker is absent or the end marker comes before the
\* start marker, and then README.md is left as it was; when it succeeds, the
\* text up to and including the start marker and the text from the end marker on
\* are as they were.
C12_RewriteFailsOrKeepsOutside ==
    ReachedReadme /\ HasSummary =>
        IF MarkersMissingOrReversed(ReadmeAfterSummary, README_MODE_START_MARKER,
                                    README_MODE_END_MARKER)
        THEN run.status = "readme_failed" /\ readme = run.before.readme
        ELSE /\ KeepsOutside(ReadmeAfterSummary, ReadmeAfterMode,
                             README_MODE_START_MARKER, README_MODE_END_MARKER)
             /\ IF MarkersMissingOrReversed(ReadmeAfterMode, README_START_MARKER,
                                            README_END_MARKER)
                THEN run.status = "readme_failed" /\ readme = run.before.readme
                ELSE /\ run.status # "readme_failed"
                     /\ KeepsOutside(ReadmeAfterMode, readme,
                                     README_START_MARKER, README_END_MARKER)

\* a run that wrote folders and then failed on a README whose table end marker
\* comes before its table start marker
C12_Witness ==
    /\ ReachedReadme /\ HasSummary
    /\ run.status = "readme_failed"
    /\ folders # run.before.folders
    /\ Find(run.before.readme, README_START_MARKER) # 0
    /\ Find(run.before.readme, README_END_MARKER) # 0
    /\ Find(run.before.readme, README_END_MARKER) < Find(run.before.readme, README_START_MARKER)

\* the entries of the registry file
StoredEntries == {registry.tab[lang_id] : lang_id \in Range(registry.keys)}

\* the elements of list at the positions where they occur first, in order
FirstOccurrences(list) ==
    SelectSeq([i \in DOMAIN list |-> [at |-> i, item |-> list[i]]],
              LAMBDA x : \A j \in 1..(x.at - 1) : list[j] # x.item)

ItemsOf(marked) == [i \in DOMAIN marked |-> marked[i].item]

\* C13: get_detection_tokens follows the precedence rule: with suffixes or
\* filenames present (even empty) the result is suffixes then filenames with
\* later duplicates removed, and extensions is ignored; otherwise it is the
\* entry's extensions, or the empty list when extensions is absent.
C13_TokensFollowPrecedence ==
    \A info \in StoredEntries :
        LET suffixes == IF "suffixes" \in info.has THEN info.suffixes ELSE <<>>
            filenames == IF "filenames" \in info.has THEN info.filenames ELSE <<>>
        IN IF "suffixes" \in info.has \/ "filenames" \in info.has
           THEN get_detection_tokens(info) = ItemsOf(FirstOccurrences(suffixes \o filenames))
           ELSE IF "extensions" \in info.has
                THEN get_detection_tokens(info) = info.extensions
                ELSE get_detection_tokens(info) = <<>>

\* a run that wrote the folder of an entry holding extensions next to
\* suffixes and filenames that share a token
C13_Witness ==
    /\ Generated
    /\ \E lang_id \in DOMAIN folders :
          LET info == run.loaded.tab[lang_id]
          IN /\ {"extensions", "suffixes", "filenames"} \subseteq info.has
             /\ info.extensions # <<>>
             /\ Range(info.suffixes) \cap Range(info.filenames) # {}
             /\ folders[lang_id].config_toml.suffixes
                   = generate_path_suffixes(ItemsOf(FirstOccurrences(info.suffixes
                                                                        \o info.filenames)))

\* the detection list get_detection_tokens reads for an entry
DetectionInput(info) ==
    IF "suffixes" \in info.has \/ "filenames" \in info.has
    THEN (IF "suffixes" \in info.has THEN info.suffixes ELSE <<>>)
            \o (IF "filenames" \in info.has THEN info.filenames ELSE <<>>)
    ELSE IF "extensions" \in info.has THEN info.extensions ELSE <<>>

\* C14: for every entry, of any detection shape, the list get_detection_tokens
\* returns holds no string twice and keeps the first-occurrence order of its
\* input.
C14_TokensHaveNoDuplicates ==
    \A info \in StoredEntries :
        LET tokens == get_detection_tokens(info)
        IN /\ \A i, j \in DOMAIN tokens : i # j => tokens[i] # tokens[j]
           /\ tokens = ItemsOf(FirstOccurrences(DetectionInput(info)))

\* a generate or --sort run that reached validate_config with a non-empty config
Validated ==
    /\ run.cmd \in {"generate", "sort"}
    /\ run.environment_errors = <<>>
    /\ run.loaded.keys # <<>>

\* every problem of one entry: each missing required field, no detection
\* field at all, each detection field of the wrong type, an invalid source
Defects(lang_id, info) ==
    {Err(lang_id, "missing required field", f) : f \in {"name", "zed_language"} \ info.has}
    \cup (IF info.has \cap {"extensions", "suffixes", "filenames"} = {}
          THEN {Err(lang_id, "missing detection fields", "")} ELSE {})
    \cup {Err(lang_id, "must be a list", f) :
             f \in info.has \cap info.nonlist \cap {"extensions", "suffixes", "filenames"}}
    \cup {Err(lang_id, "must contain only strings", f) :
             f \in {g \in (info.has \cap {"extensions", "suffixes", "filenames"}) \ info.nonlist :
                       \E i \in DOMAIN FieldList(info, g) : FieldList(info, g)[i] = NonStrItem}}
    \cup (IF "source" \in info.has /\ info.source \notin {"native", "extension", "extra"}
          THEN {Err(lang_id, "invalid source", "source")} ELSE {})

AllDefects(config) == UNION {Defects(k, config.tab[k]) : k \in Range(config.keys)}

\* C15: validate_config on a non-empty config reports in one pass every error
\* of every entry (each missing required field, missing detection fields, each
\* field's type error, invalid source), entry after entry, and aborts iff
\* there is one; it never stops at the first failing entry or the first error.
C15_ValidateReportsEveryError ==
    Validated =>
        /\ Range(run.errors) = AllDefects(run.loaded)
        /\ Len(run.errors) = Cardinality(AllDefects(run.loaded))
        /\ \A i, j \in DOMAIN run.errors :
              i < j => \E a, b \in DOMAIN run.loaded.keys :
                          /\ a <= b
                          /\ run.errors[i].lang_id = run.loaded.keys[a]
                          /\ run.errors[j].lang_id = run.loaded.keys[b]
        /\ run.errors # <<>> =>
              /\ registry = FileBefore
              /\ IsGenerate => run.status = "invalid" /\ folders = run.before.folders
              /\ run.cmd = "sort" => ~run.saved

\* a run aborted on a config whose two entries both fail, one of them in
\* four ways
C15_Witness ==
    /\ Validated
    /\ Len(run.errors) >= 5
    /\ \E a, b \in Range(run.loaded.keys) :
          /\ a # b
          /\ Cardinality(Defects(a, run.loaded.tab[a])) >= 4
          /\ Defects(b, run.loaded.tab[b]) # {}

\* a run that reached save_config and wrote the file: the config it held
WroteFile == run.cmd \in {"sync", "sort"} /\ run.saved

SavedConfig == IF run.cmd = "sync" THEN run.added ELSE run.loaded

\* a comes before b in code point order
ComesBefore(a, b) ==
    \E n \in 0..Len(a) :
        /\ n <= Len(b)
        /\ SubSeq(a, 1, n) = SubSeq(b, 1, n)
        /\ \/ n = Len(a) /\ n < Len(b)
           \/ n < Len(a) /\ n < Len(b) /\ a[n + 1] < b[n + 1]

\* C16: save_config writes the entries in ascending lang_id order whatever
\* the order of the mapping in memory, and one source per entry: the entry's own,
\* or extra when it has none.
C16_SaveSortsAndWritesSource ==
    WroteFile /\ registry.readable =>
        /\ Range(registry.keys) = Range(SavedConfig.keys)
        /\ \A i, j \in DOMAIN registry.keys :
              i < j => ComesBefore(registry.keys[i], registry.keys[j])
        /\ \A lang_id \in Range(registry.keys) :
              /\ "source" \in registry.tab[lang_id].has
              /\ registry.tab[lang_id].source
                    = IF "source" \in SavedConfig.tab[lang_id].has
                      THEN SavedConfig.tab[lang_id].source
                      ELSE "extra"

\* a save of a mapping held in descending order, with an entry without source
C16_Witness ==
    /\ WroteFile /\ registry.readable
    /\ \E i, j \in DOMAIN SavedConfig.keys :
          i < j /\ ComesBefore(SavedConfig.keys[j], SavedConfig.keys[i])
    /\ \E lang_id \in Range(SavedConfig.keys) : "source" \notin SavedConfig.tab[lang_id].has

\* C17: save_config never raises: for every config load_config can return,
\* unvalidated as on the sync path, the save completes and writes the file, with
\* an empty extensions list where the entry has no well-formed detection field.
C17_SaveNeverRaises ==
    IsSync =>
        /\ run.saved
        /\ registry.exists
        /\ registry.readable =>
              \A lang_id \in Range(run.added.keys) :
                  (\A f \in Range(DETECTION_FIELDS) : ~IsListField(run.added.tab[lang_id], f))
                      => /\ "extensions" \in registry.tab[lang_id].has
                         /\ registry.tab[lang_id].extensions = <<>>

\* C18: the serialization is a fixed point: for every config save accepts,
\* saving it, loading the saved file and saving again gives the file of the
\* first save.
C18_SaveLoadSaveIsFixedPoint ==
    WroteFile =>
        /\ ~load_config_raises(registry)
        /\ ~save_config_raises(load_config(registry))
        /\ save_config(load_config(registry)) = registry

\* a sync run started with --diff, --list or --classify
ReadOnlyModeRun ==
    /\ run.cmd \in {"sync", "sync_readonly", "crash"}
    /\ run.cmd = "crash" => run.tool = "sync"
    /\ run.args.list \/ run.args.diff \/ run.args.classify

\* C19: a sync run with --diff, --list or --classify never reaches
\* save_config and leaves the registry file and the entries it loaded as they
\* were, whatever the remote data.
C19_ReadOnlyModesWriteNothing ==
    ReadOnlyModeRun =>
        /\ run.cmd # "sync"
        /\ registry = run.before
        /\ run.cmd = "sync_readonly" =>
              /\ ~run.saved
              /\ run.config = run.loaded
              /\ run.mode = "diff" => run.loaded = load_config(run.before)

\* a --diff --add run on a registry sharing a language with the remote data
\* whose stored source the remote data contradicts
C19_Witness ==
    /\ run.cmd = "sync_readonly"
    /\ run.mode = "diff"
    /\ run.args.add
    /\ \E lang_id \in Range(run.loaded.keys) :
          /\ ZedLangOf(lang_id, run.loaded.tab[lang_id]) \in run.common
          /\ run.loaded.tab[lang_id].source = EXTRA

\* the concurrent fetch is over
FetchOver == run.cmd = "fetch_ext" /\ run.phase # "running"

\* the extensions whose task raised or whose network fetch failed
FailedExtensions == {i \in DOMAIN run.extensions : run.extensions[i] \in {"raises", "fetch_failed"}}

\* C20: in the concurrent extension fetch every failure of an extension (its
\* task raises, or its network fetch fails) is tallied once, the fetch is aborted
\* whenever the failures exceed half of the extensions, and otherwise the
\* languages of every extension that did not fail are returned.
C20_FetchFailuresTalliedAndThreshold ==
    FetchOver =>
        /\ run.fetch_errors = Cardinality(FailedExtensions)
        /\ 2 * Cardinality(FailedExtensions) > Len(run.extensions)
              => run.phase = "too_many_errors"
        /\ 2 * Cardinality(FailedExtensions) <= Len(run.extensions) =>
              /\ run.phase = "returned"
              /\ \A i \in DOMAIN run.extensions \ FailedExtensions :
                    run.extensions[i] = "languages"
                        => \A k \in DOMAIN LanguagesOf(i) :
                              LanguagesOf(i)[k] \in Range(run.all_languages)

\* the orders in which the futures that produced a list can complete
CompletionOrders(langs) ==
    {[i \in DOMAIN langs |-> langs[p[i]]] : p \in Permutations(DOMAIN langs)}

\* what the current sync run computes and saves from ext_langs in another order
SyncOf(ext_langs) ==
    LET filtered == IF run.native_langs # <<>> /\ ext_langs # <<>>
                    THEN filter_extensions_reusing_native_syntax(run.native_signatures, ext_langs)
                    ELSE [kept |-> ext_langs, skipped |-> <<>>]
        zed_by_lang == map_zed_languages(run.native_langs, filtered.kept)
        updated == update_sources(run.loaded, ZedLangs(run.native_langs), ZedLangs(filtered.kept))
        backfilled == backfill_missing_detection_tokens(updated, zed_by_lang)
        added == add_missing_languages(backfilled, run.native_langs \o filtered.kept, run.args)
    IN [ext_ids |-> ZedLangs(filtered.kept), zed_by_lang |-> zed_by_lang.tab, added |-> added]

\* C21: the outcome of a sync does not depend on the order in which the
\* per-extension fetch tasks complete: every order of the same extension records
\* gives the same effective extension data and the same registry written, also
\* when two extensions provide a language of the same id or zed_language.
C21_SyncIgnoresCompletionOrder ==
    IsSync =>
        \A other \in CompletionOrders(run.ext_langs) :
            /\ SyncOf(other).ext_ids = run.ext_ids
            /\ SyncOf(other).zed_by_lang = run.zed_by_lang.tab
            /\ save_config_raises(SyncOf(other).added) = save_config_raises(run.added)
            /\ run.saved => save_config(SyncOf(other).added) = registry

\* the required items that are not on disk: a required path, or a template
\* file of a templates directory that is there
MissingItems ==
    {path \in Range(required_paths) \ {"CONFIG_PATH"} : path \notin present}
    \cup (IF FileBefore.exists THEN {} ELSE {"CONFIG_PATH"})
    \cup (IF "TEMPLATES_DIR" \in present
          THEN {tmpl \in Range(REQUIRED_TEMPLATES) : tmpl \notin present}
          ELSE {})

\* C22: when a required path (templates dir, languages dir, base jinja2 dir,
\* README.md, extension.toml, languages.toml) or a required template file is
\* missing, a generate run reports every missing item, each once, and aborts
\* before it touches an output folder, README.md, extension.toml or the registry.
C22_MissingEnvironmentAbortsBeforeMutation ==
    (run.cmd \in {"generate", "sort"} /\ MissingItems # {}) =>
        /\ Range(run.environment_errors) = MissingItems
        /\ Len(run.environment_errors) = Cardinality(MissingItems)
        /\ registry = FileBefore
        /\ run.cmd = "sort" => ~run.saved
        /\ IsGenerate =>
              /\ run.status = "no_environment"
              /\ folders = run.before.folders
              /\ readme = run.before.readme
              /\ manifest = run.before.manifest

\* a run on a valid registry and stale output folders that found README.md and
\* a template file missing and reported both
C22_Witness ==
    /\ IsGenerate
    /\ run.status = "no_environment"
    /\ Len(run.environment_errors) >= 2
    /\ \E i \in DOMAIN run.environment_errors :
          run.environment_errors[i] \in Range(REQUIRED_TEMPLATES)
    /\ load_and_validate_config_ok(run.before.registry)
    /\ generate_languages(run.before.folders, run.loaded, run.args) # run.before.folders
    /\ folders = run.before.folders

\* C23: generate --sort preserves all fields of every entry: each entry
\* read back from the registry after the run has exactly the fields and values
\* it had before (the legacy enabled flag included, an absent source still
\* absent); only the order of the entries changes.
C23_SortPreservesEveryField ==
    (run.cmd = "sort" /\ run.saved) =>
        /\ registry.readable
        /\ Range(registry.keys) = Range(run.before.keys)
        /\ \A lang_id \in Range(run.before.keys) :
              registry.tab[lang_id] = run.before.tab[lang_id]

\* split_path_suffixes has returned
SplitOver == run.cmd = "split_path_suffixes" /\ run.phase = "returned"

\* the stripped, non-empty values of the input, in order
StrippedValues ==
    SelectSeq([i \in DOMAIN run.path_suffixes |-> Strip(run.path_suffixes[i])],
              LAMBDA value : value # <<>>)

HasChar(str, c) == \E i \in DOMAIN str : str[i] = c

\* the first occurrences of the values that satisfy Test(_), in input order
FirstOf(values, Test(_)) == ItemsOf(FirstOccurrences(SelectSeq(values, Test)))

\* the rule as stated: a suffix starts with "." or with its only "*" in a
\* leading "*."; a full filename holds no ".", "*" or "/"
StatedSuffix(value) ==
    \/ StartsWith(value, <<46>>)
    \/ StartsWith(value, <<42, 46>>) /\ CountChar(value, 42) = 1

StatedFilename(value) == ~HasChar(value, 46) /\ ~HasChar(value, 42) /\ ~HasChar(value, 47)

StatedOther(value) == ~StatedSuffix(value) /\ ~StatedFilename(value)

\* C24 as stated: split_path_suffixes puts every non-empty stripped token
\* into exactly one bucket: suffixes are the patterns starting with "." or with
\* exactly one leading "*."; full_filenames are the bare tokens holding no ".",
\* "*" or "/"; other_patterns is everything else; each bucket is deduplicated in
\* first-occurrence order.
C24_Original_SplitFollowsStatedRule ==
    SplitOver =>
        /\ run.suffixes = FirstOf(StrippedValues, StatedSuffix)
        /\ run.full_filenames = FirstOf(StrippedValues, StatedFilename)
        /\ run.other_patterns = FirstOf(StrippedValues, StatedOther)

\* the rule of the code: a token holding "/" or a "*" that is not the single
\* star of a leading "*." is another pattern; a suffix is a "*." pattern with
\* that single star or a star-free token starting with "."; every other token is
\* a full filename, dots inside included
IsOther(value) ==
    \/ HasChar(value, 47)
    \/ HasChar(value, 42) /\ ~(StartsWith(value, <<42, 46>>) /\ CountChar(value, 42) = 1)

IsSuffix(value) ==
    /\ ~IsOther(value)
    /\ StartsWith(value, <<42, 46>>) \/ StartsWith(value, <<46>>)

IsFilename(value) == ~IsOther(value) /\ ~IsSuffix(value)

\* C24 amended: split_path_suffixes puts every non-empty stripped token
\* into exactly one bucket: other_patterns takes every token holding "/" or a
\* "*" other than the single star of a leading "*."; suffixes takes the remaining
\* tokens that start with "*." or "."; full_filenames takes all the rest, a dot
\* after the first character included; each bucket is deduplicated in
\* first-occurrence order.
C24_SplitFollowsCodeRule ==
    SplitOver =>
        /\ run.suffixes = FirstOf(StrippedValues, IsSuffix)
        /\ run.full_filenames = FirstOf(StrippedValues, IsFilename)
        /\ run.other_patterns = FirstOf(StrippedValues, IsOther)
        /\ \A i \in DOMAIN StrippedValues :
              Cardinality({bucket \in {run.suffixes, run.full_filenames, run.other_patterns} :
                              StrippedValues[i] \in Range(bucket)}) = 1

\* a split of "f.p", ".f.*" and a padded ".p": the dotted filename is a full
\* filename, the dot-led glob another pattern, the padded token a suffix
C24_Witness ==
    /\ SplitOver
    /\ T_f_dot_p \in Range(run.full_filenames)
    /\ T_dot_f_dot_star \in Range(run.other_patterns)
    /\ T_padded_dot_p \in Range(run.path_suffixes)
    /\ run.suffixes = <<T_dot_p>>

\* the number of "| name | detection |" lines in a sequence of pieces
RowCount(content) == Cardinality({i \in DOMAIN content : content[i].kind = "row"})

\* C25: after a successful generation run the supported-language count in
\* README.md equals the number of output folders of the run, which equals the
\* number of per-language rows of the generated table (the fixed Jinja2 row
\* aside) and the count written into the description of extension.toml.
C25_CountsAgree ==
    (IsGenerate /\ run.status = "ok") =>
        LET count == Cardinality(DOMAIN folders)
        IN /\ run.counts.generated = count
           /\ \E i \in DOMAIN readme : readme[i].kind = "summary"
           /\ \A i \in DOMAIN readme : readme[i].kind = "summary" => readme[i].count = count
           /\ RowCount(generate_readme_table(run.loaded, run.args)) = count
           /\ Len(TableRows(run.loaded, run.args)) = count
           /\ \E i \in DOMAIN manifest :
                 /\ manifest[i].kind = "description"
                 /\ \A j \in 1..(i - 1) : manifest[j].kind # "description"
                 /\ manifest[i].count = count

\* a successful run that selected one of two entries, over stale folders and
\* documents that carried other counts
C25_Witness ==
    /\ IsGenerate /\ run.status = "ok"
    /\ Cardinality(DOMAIN folders) = 1
    /\ Len(run.loaded.keys) = 2
    /\ DOMAIN run.before.folders # DOMAIN folders
    /\ \E i \in DOMAIN run.before.readme :
          run.before.readme[i].kind = "summary" /\ run.before.readme[i].count # 1
    /\ \E i \in DOMAIN manifest : manifest[i] = DescriptionLine(1, <<EXTENSION>>)

\* the config a run with the flags and the remote data of the current sync run
\* would hold before save_config, had it loaded config
ReconciledFrom(config) ==
    LET zed_by_lang == map_zed_languages(run.native_langs, run.effective_ext_langs)
        updated == update_sources(config, run.native_ids, run.ext_ids)
        backfilled == backfill_missing_detection_tokens(updated, zed_by_lang)
    IN add_missing_languages(backfilled, run.native_langs \o run.effective_ext_langs, run.args)

\* C26: sync is idempotent for fixed remote data: a second run with the same
\* flags against the same native and extension records writes exactly the
\* registry the first run wrote; in particular every entry --add stored already
\* carries the source the transition rule gives it.
C26_SyncIsIdempotent ==
    (IsSync /\ run.saved) =>
        /\ ~load_config_raises(registry)
        /\ ~save_config_raises(ReconciledFrom(load_config(registry)))
        /\ save_config(ReconciledFrom(load_config(registry))) = registry
        /\ \A lang_id \in Range(registry.keys) :
              registry.tab[lang_id].source
                  = NewSource(registry.tab[lang_id].zed_language, run.native_ids, run.ext_ids)

\* C27: add_missing_languages never replaces or modifies an entry the
\* config held before the call: every such lang_id maps to the same name,
\* zed_language, detection fields and source afterwards, also when an upstream
\* record's id equals a lang_id whose entry names another zed_language.
C27_AddKeepsExistingEntries ==
    IsSync =>
        \A lang_id \in Entries(run.backfilled) :
            /\ lang_id \in Entries(run.added)
            /\ run.added.tab[lang_id] = run.backfilled.tab[lang_id]

\* C28: every entry backfill_missing_detection_tokens assigns to has a
\* non-empty token list under get_detection_tokens afterwards, so generation no
\* longer excludes it for lack of tokens, also when it declared an empty suffixes
\* or filenames list.
C28_BackfilledEntryHasTokens ==
    IsSync =>
        \A lang_id \in Entries(run.updated) :
            Backfills(lang_id, run.updated.tab[lang_id], run.zed_by_lang)
                => /\ get_detection_tokens(run.backfilled.tab[lang_id]) # <<>>
                   /\ has_detection_tokens(run.backfilled.tab[lang_id])

\* a generate run that aborted in update_readme or update_extension_manifest
RewriteFailed == IsGenerate /\ run.status \in {"readme_failed", "manifest_failed"}

\* C29: a generate run that aborts with a document-rewrite error (summary
\* line or a marker missing in README.md, no description line in extension.toml)
\* leaves every artifact as it was: no output folder deleted or rewritten,
\* README.md unchanged, extension.toml unchanged.
C29_RewriteErrorLeavesDiskUntouched ==
    RewriteFailed =>
        /\ folders = run.before.folders
        /\ readme = run.before.readme
        /\ manifest = run.before.manifest

\* a sync run restricted to one side: --native without --ext, or --ext
\* without --native
OneSided == IsSync /\ (run.args.native # run.args.ext)

\* the ids of the side a one-sided run fetched
FetchedIds == IF run.args.native THEN run.native_ids ELSE run.ext_ids

\* C30: in a sync run restricted to one side the other side is not fetched
\* and its id-set is empty, no syntax-signature filtering is applied, and every
\* entry whose zed_language is not an id of the fetched side gets source extra,
\* also an entry stored as extension (resp. native) whose upstream language
\* still exists.
C30_OneSidedRunMakesOthersExtra ==
    OneSided =>
        /\ run.args.native => run.ext_langs = <<>> /\ run.ext_ids = {}
        /\ run.args.ext => run.native_langs = <<>> /\ run.native_ids = {}
        /\ run.effective_ext_langs = run.ext_langs
        /\ run.native_signatures = {}
        /\ \A lang_id \in Entries(run.loaded) :
              ZedLangOf(lang_id, run.loaded.tab[lang_id]) \notin FetchedIds
                  => run.updated.tab[lang_id].source = EXTRA
        /\ \A lang_id \in Entries(run.added) :
              ZedLangOf(lang_id, run.added.tab[lang_id]) \notin FetchedIds
                  => /\ run.added.tab[lang_id].source = EXTRA
                     /\ run.saved /\ registry.readable
                           => registry.tab[lang_id].source = EXTRA

\* a --native run that wrote source extra for an entry stored as extension
\* whose language the extensions repository still provides
C30_Witness ==
    /\ OneSided /\ run.args.native
    /\ run.saved /\ registry.readable
    /\ \E lang_id \in Entries(run.loaded) :
          /\ "source" \in run.loaded.tab[lang_id].has
          /\ run.loaded.tab[lang_id].source = EXTENSION
          /\ run.loaded.tab[lang_id].zed_language \in {lang.zed_language : lang \in ExtPool}
          /\ run.loaded.tab[lang_id].zed_language \notin run.native_ids
          /\ lang_id \in Entries(registry)
          /\ registry.tab[lang_id].zed_language = run.loaded.tab[lang_id].zed_language
          /\ registry.tab[lang_id].source = EXTRA

====
